---- MODULE Spec2Model ----
(***************************************************************************)
(* A model of the asset-inventory backend: the relational store (assets,   *)
(* users, complaints, maintenance schedules, the asset-history ledger and  *)
(* the activity log) and the handlers that mutate it.  Every handler is a  *)
(* sequence of store statements; one statement is one atomic step of the   *)
(* calling process, so that handlers of different processes interleave     *)
(* between statements exactly as awaited queries do.                       *)
(***************************************************************************)
EXTENDS Integers, Sequences, FiniteSets, TLC

(***************************************************************************)
(* Bounds of the model.                                                    *)
(***************************************************************************)
\* Calls started in one behaviour; the clock ticks once per call.
MaxClock == 2
\* A call that may write the ledger starts only while the ledger is shorter.
MaxHistory == 2

(***************************************************************************)
(* Values.  NULL is SQL NULL / JS null, UNDEFINED an absent optional input *)
(* field; input strings range over sets that contain neither.              *)
(***************************************************************************)
NULL == "<NULL>"
UNDEFINED == "<undefined>"

Conditions == {"NEW", "GOOD", "UNDER_REPAIR", "DAMAGED"}
Categories == {"MONITOR", "CPU"}
Statuses == {"NEEDS_REPAIR", "URGENT", "UNDER_REPAIR", "RESOLVED"}

Procs == {"p1", "p2"}

\* An id that no row ever has.
MissingId == "zz"

VARIABLES
  assets,       \* assetsTable: id -> row
  users,        \* usersTable: id -> row
  complaints,   \* complaintsTable: id -> row
  maintenance,  \* maintenanceSchedulesTable: id -> row
  history,      \* assetHistoryTable, in insertion order (the position is the row's key)
  logs,         \* userActivityLogsTable, in insertion order
  clock,        \* what new Date() and defaultNow() return
  minted,       \* how many ids randomUUID() has generated
  pc,           \* per process: the statement it executes next
  call,         \* per process: the handler called and its input
  loc,          \* per process: the handler's local variables
  ret,          \* per process: what the last call returned or threw
  pre           \* per process: the store as it was when the call started

store == <<assets, users, complaints, maintenance, history, logs>>
vars == <<assets, users, complaints, maintenance, history, logs, clock, minted, pc, call, loc, ret, pre>>

Snapshot ==
  [assets |-> assets, users |-> users, complaints |-> complaints,
   maintenance |-> maintenance, history |-> history, logs |-> logs]

NoLocals == <<>>
NoCall == [op |-> "none"]
NoRet == [status |-> "none"]

Range(s) == {s[i] : i \in 1..Len(s)}

\* randomUUID() / uuidv4(): every call returns an id never seen before.
FreshIds == <<"x1", "x2", "x3", "x4", "x5", "x6", "x7", "x8">>
FreshId == FreshIds[minted + 1]

\* result[0] of a statement that returned no row.
UndefinedRow == [undefined |-> TRUE]
First(result) == IF result = <<>> THEN UndefinedRow ELSE result[1]

\* JS truthiness of a string-or-null value.
Truthy(v) == v \notin {UNDEFINED, NULL, ""}

(***************************************************************************)
(* Calling and returning.                                                  *)
(***************************************************************************)
\* A process that is not inside a call starts one; time has passed since
\* the previous call started.
CanBegin(p) ==
  /\ pc[p] = "idle"
  /\ clock < MaxClock

Begin(p, c, first) ==
  /\ clock' = clock + 1
  /\ pc' = [pc EXCEPT ![p] = first]
  /\ call' = [call EXCEPT ![p] = c]
  /\ loc' = [loc EXCEPT ![p] = NoLocals]
  /\ ret' = [ret EXCEPT ![p] = NoRet]
  /\ pre' = [pre EXCEPT ![p] = Snapshot]
  /\ UNCHANGED <<store, minted>>

\* return v
Return(p, v) ==
  /\ pc' = [pc EXCEPT ![p] = "done"]
  /\ ret' = [ret EXCEPT ![p] = [status |-> "ok", value |-> v]]
  /\ loc' = [loc EXCEPT ![p] = NoLocals]

\* throw new Error(...), or an error raised by the store; the handler's
\* catch block logs it and rethrows.
Throw(p, e) ==
  /\ pc' = [pc EXCEPT ![p] = "done"]
  /\ ret' = [ret EXCEPT ![p] = [status |-> "error", error |-> e]]
  /\ loc' = [loc EXCEPT ![p] = NoLocals]

\* The caller has taken the result; the process is free for another call.
Reset(p) ==
  /\ pc[p] = "done"
  /\ pc' = [pc EXCEPT ![p] = "idle"]
  /\ call' = [call EXCEPT ![p] = NoCall]
  /\ ret' = [ret EXCEPT ![p] = NoRet]
  /\ pre' = [pre EXCEPT ![p] = NoLocals]
  /\ UNCHANGED <<store, clock, minted, loc>>

\* The handler goes on to statement l with locals v.
Goto(p, l, v) ==
  /\ pc' = [pc EXCEPT ![p] = l]
  /\ loc' = [loc EXCEPT ![p] = v]
  /\ UNCHANGED ret

(***************************************************************************)
(* The store's constraints.                                                *)
(***************************************************************************)
NoForeignKeys(id) == FALSE

\* asset_id references assets.id (complaints, asset_history, maintenance_schedules).
AssetReferenced(id) ==
  \/ \E c \in DOMAIN complaints : complaints[c].asset_id = id
  \/ \E i \in 1..Len(history) : history[i].asset_id = id
  \/ \E m \in DOMAIN maintenance : maintenance[m].asset_id = id

\* UPDATE ... SET data: the columns named in data are overwritten.
SetColumns(row, data) ==
  [k \in DOMAIN row |-> IF k \in DOMAIN data THEN data[k] ELSE row[k]]

(***************************************************************************)
(* updateAsset                                                             *)
(***************************************************************************)
AssetFields == <<"name", "description", "category", "condition", "owner", "photo_url">>

FieldChangedIfProvided(input, existingAsset, f) ==
  input[f] # UNDEFINED

FieldChangedIfTruthy(input, existingAsset, f) ==
  /\ input[f] \notin {UNDEFINED, NULL, ""}
  /\ input[f] # existingAsset[f]

\* input.f !== undefined && input.f !== existingAsset.f
FieldChanged(input, existingAsset, f) ==
  /\ input[f] # UNDEFINED
  /\ input[f] # existingAsset[f]

UpdateDataRenewingQr(input, existingAsset, now) ==
  [k \in {"updated_at", "qr_code"}
         \cup {f \in Range(AssetFields) : FieldChanged(input, existingAsset, f)} |->
     IF k = "updated_at" THEN now
     ELSE IF k = "qr_code" THEN <<"QR_", existingAsset.id, now>> ELSE input[k]]

\* updateData: updated_at and every changed field.
UpdateData(input, existingAsset, now) ==
  [k \in {"updated_at"} \cup {f \in Range(AssetFields) : FieldChanged(input, existingAsset, f)} |->
     IF k = "updated_at" THEN now ELSE input[k]]

RECURSIVE ChangesFrom(_, _, _)
ChangesFrom(input, existingAsset, i) ==
  IF i > Len(AssetFields) THEN <<>>
  ELSE LET f == AssetFields[i] IN
       (IF FieldChanged(input, existingAsset, f)
        THEN <<[field_name |-> f, old_value |-> existingAsset[f], new_value |-> input[f]]>>
        ELSE <<>>) \o ChangesFrom(input, existingAsset, i + 1)

\* changes: one entry per changed field, in the order the fields are checked.
AssetChanges(input, existingAsset) == ChangesFrom(input, existingAsset, 1)

HistoryRowReversed(asset_id, field_name, old_value, new_value, now) ==
  [asset_id |-> asset_id, field_name |-> field_name, old_value |-> new_value,
   new_value |-> old_value, changed_by |-> NULL, changed_at |-> now]

\* One asset_history row.
HistoryRow(asset_id, field_name, old_value, new_value, now) ==
  [asset_id |-> asset_id, field_name |-> field_name, old_value |-> old_value,
   new_value |-> new_value, changed_by |-> NULL, changed_at |-> now]

CallUpdateAsset(p, inputs) ==
  /\ CanBegin(p)
  /\ Len(history) < MaxHistory
  /\ \E input \in inputs : Begin(p, [op |-> "updateAsset", input |-> input], "ua_select")

\* select the current asset, build updateData and changes
UA_Select(p) ==
  /\ pc[p] = "ua_select"
  /\ LET input == call[p].input IN
     IF input.id \notin DOMAIN assets
     THEN Throw(p, "NotFound")
     ELSE LET existingAsset == assets[input.id]
              updateData == UpdateData(input, existingAsset, clock)
              changes == AssetChanges(input, existingAsset)
          IN IF Cardinality(DOMAIN updateData) = 1
             THEN Return(p, existingAsset)
             ELSE Goto(p, "ua_update",
                       [updateData |-> updateData, changes |-> changes,
                        updatedAsset |-> UndefinedRow])
  /\ UNCHANGED <<store, clock, minted, call, pre>>

UA_UpdateIfUnchanged(p) ==
  /\ pc[p] = "ua_update"
  /\ LET id == call[p].input.id IN
     IF id \in DOMAIN assets /\ assets[id] = pre[p].assets[id]
     THEN /\ assets' = [assets EXCEPT ![id] = SetColumns(@, loc[p].updateData)]
          /\ Goto(p, "ua_history", [loc[p] EXCEPT !.updatedAsset = First(<<assets'[id]>>)])
     ELSE /\ UNCHANGED assets
          /\ Throw(p, "Conflict")
  /\ UNCHANGED <<users, complaints, maintenance, history, logs, clock, minted, call, pre>>

\* update assets set updateData where id = input.id returning *
UA_Update(p) ==
  /\ pc[p] = "ua_update"
  /\ LET id == call[p].input.id IN
     IF id \in DOMAIN assets
     THEN /\ assets' = [assets EXCEPT ![id] = SetColumns(@, loc[p].updateData)]
          /\ Goto(p, "ua_history", [loc[p] EXCEPT !.updatedAsset = First(<<assets'[id]>>)])
     ELSE /\ UNCHANGED assets
          /\ Goto(p, "ua_history", [loc[p] EXCEPT !.updatedAsset = First(<<>>)])
  /\ UNCHANGED <<users, complaints, maintenance, history, logs, clock, minted, call, pre>>

\* insert one asset_history row per change
UA_History(p) ==
  /\ pc[p] = "ua_history"
  /\ LET id == call[p].input.id
         changes == loc[p].changes
     IN IF Len(changes) > 0
        THEN IF id \in DOMAIN assets
             THEN /\ history' = history \o
                       [i \in 1..Len(changes) |->
                          HistoryRow(id, changes[i].field_name, changes[i].old_value,
                                     changes[i].new_value, clock)]
                  /\ Return(p, loc[p].updatedAsset)
             ELSE /\ UNCHANGED history
                  /\ Throw(p, "ForeignKeyViolation")
        ELSE /\ UNCHANGED history
             /\ Return(p, loc[p].updatedAsset)
  /\ UNCHANGED <<assets, users, complaints, maintenance, logs, clock, minted, call, pre>>

UpdateAssetStep(p) == UA_Select(p) \/ UA_Update(p) \/ UA_History(p)

(***************************************************************************)
(* createComplaint                                                         *)
(***************************************************************************)
\* The row createComplaint inserts; created_at and updated_at default to now.
NewComplaintRow(id, input, now) ==
  [id |-> id, asset_id |-> input.asset_id, complainant_name |-> input.complainant_name,
   status |-> input.status, description |-> input.description,
   created_at |-> now, updated_at |-> now]

CallCreateComplaint(p, inputs) ==
  /\ CanBegin(p)
  /\ \E input \in inputs : Begin(p, [op |-> "createComplaint", input |-> input], "cc_select")

\* verify that the asset exists
CC_Select(p) ==
  /\ pc[p] = "cc_select"
  /\ IF call[p].input.asset_id \notin DOMAIN assets
     THEN Throw(p, "NotFound")
     ELSE Goto(p, "cc_insert", NoLocals)
  /\ UNCHANGED <<store, clock, minted, call, pre>>

\* insert the complaint under a fresh id
CC_Insert(p) ==
  /\ pc[p] = "cc_insert"
  /\ LET complaintId == FreshId
         row == NewComplaintRow(complaintId, call[p].input, clock)
     IN /\ minted' = minted + 1
        /\ IF call[p].input.asset_id \in DOMAIN assets
           THEN /\ complaints' = [id \in DOMAIN complaints \cup {complaintId} |->
                                    IF id = complaintId THEN row ELSE complaints[id]]
                /\ Return(p, row)
           ELSE /\ UNCHANGED complaints
                /\ Throw(p, "ForeignKeyViolation")
  /\ UNCHANGED <<assets, users, maintenance, history, logs, clock, call, pre>>

CreateComplaintStep(p) == CC_Select(p) \/ CC_Insert(p)

(***************************************************************************)
(* updateComplaint                                                         *)
(***************************************************************************)
\* updateData: updated_at, and status and description when provided.
ComplaintUpdateData(input, now) ==
  [k \in {"updated_at"} \cup {f \in {"status", "description"} : input[f] # UNDEFINED} |->
     IF k = "updated_at" THEN now ELSE input[k]]

StatusChangedIfProvided(input, complaint) ==
  Truthy(input.status)

\* input.status && input.status !== complaint.status
StatusChanged(input, complaint) ==
  /\ Truthy(input.status)
  /\ input.status # complaint.status

HasUnresolvedOrOther(otherComplaints, id) ==
  \E c \in otherComplaints : c.id # id \/ c.status # "RESOLVED"

HasUnresolvedSelf(otherComplaints, id) ==
  \E c \in otherComplaints : c.id = id /\ c.status # "RESOLVED"

\* otherComplaints.some(c => c.id !== input.id && c.status !== 'RESOLVED')
HasUnresolvedComplaints(otherComplaints, id) ==
  \E c \in otherComplaints : c.id # id /\ c.status # "RESOLVED"

NeedsHealingUnlessGood(asset) ==
  /\ asset # {}
  /\ \A a \in asset : a.condition # "GOOD"

\* asset.length > 0 && asset[0].condition === 'UNDER_REPAIR'
NeedsHealing(asset) ==
  /\ asset # {}
  /\ \A a \in asset : a.condition = "UNDER_REPAIR"

CallUpdateComplaint(p, inputs) ==
  /\ CanBegin(p)
  /\ Len(history) < MaxHistory
  /\ \E input \in inputs : Begin(p, [op |-> "updateComplaint", input |-> input], "uc_select")

\* select the complaint, build updateData
UC_Select(p) ==
  /\ pc[p] = "uc_select"
  /\ LET input == call[p].input IN
     IF input.id \notin DOMAIN complaints
     THEN Throw(p, "NotFound")
     ELSE Goto(p, "uc_update",
               [complaint |-> complaints[input.id],
                updateData |-> ComplaintUpdateData(input, clock),
                updatedComplaint |-> UndefinedRow])
  /\ UNCHANGED <<store, clock, minted, call, pre>>

\* update complaints set updateData where id = input.id returning *
UC_Update(p) ==
  /\ pc[p] = "uc_update"
  /\ LET input == call[p].input
         updatedResult == IF input.id \in DOMAIN complaints
                          THEN <<SetColumns(complaints[input.id], loc[p].updateData)>>
                          ELSE <<>>
         updated == First(updatedResult)
     IN /\ complaints' = IF input.id \in DOMAIN complaints
                         THEN [complaints EXCEPT ![input.id] = updated]
                         ELSE complaints
        /\ IF StatusChanged(input, loc[p].complaint)
           THEN Goto(p, "uc_history", [loc[p] EXCEPT !.updatedComplaint = updated])
           ELSE Return(p, updated)
  /\ UNCHANGED <<assets, users, maintenance, history, logs, clock, minted, call, pre>>

\* insert the complaint_status row
UC_History(p) ==
  /\ pc[p] = "uc_history"
  /\ LET input == call[p].input
         complaint == loc[p].complaint
     IN IF complaint.asset_id \notin DOMAIN assets
        THEN /\ UNCHANGED history
             /\ Throw(p, "ForeignKeyViolation")
        ELSE /\ history' = Append(history,
                             HistoryRow(complaint.asset_id, "complaint_status",
                                        complaint.status, input.status, clock))
             /\ IF input.status = "RESOLVED"
                THEN Goto(p, "uc_others", loc[p])
                ELSE Return(p, loc[p].updatedComplaint)
  /\ UNCHANGED <<assets, users, complaints, maintenance, logs, clock, minted, call, pre>>

UC_OthersAsOfCallStart(p) ==
  /\ pc[p] = "uc_others"
  /\ LET otherComplaints == {pre[p].complaints[c] : c \in {d \in DOMAIN pre[p].complaints :
                                 pre[p].complaints[d].asset_id = loc[p].complaint.asset_id}}
     IN IF HasUnresolvedComplaints(otherComplaints, call[p].input.id)
        THEN Return(p, loc[p].updatedComplaint)
        ELSE Goto(p, "uc_asset", loc[p])
  /\ UNCHANGED <<store, clock, minted, call, pre>>

\* select the complaints of the asset, look for another unresolved one
UC_Others(p) ==
  /\ pc[p] = "uc_others"
  /\ LET otherComplaints == {complaints[c] : c \in {d \in DOMAIN complaints :
                                 complaints[d].asset_id = loc[p].complaint.asset_id}}
     IN IF HasUnresolvedComplaints(otherComplaints, call[p].input.id)
        THEN Return(p, loc[p].updatedComplaint)
        ELSE Goto(p, "uc_asset", loc[p])
  /\ UNCHANGED <<store, clock, minted, call, pre>>

\* select the asset, check its condition
UC_Asset(p) ==
  /\ pc[p] = "uc_asset"
  /\ LET asset == {assets[a] : a \in DOMAIN assets \cap {loc[p].complaint.asset_id}}
     IN IF NeedsHealing(asset)
        THEN Goto(p, "uc_heal", loc[p])
        ELSE Return(p, loc[p].updatedComplaint)
  /\ UNCHANGED <<store, clock, minted, call, pre>>

\* update assets set condition = 'GOOD', updated_at = now where id = asset_id
UC_Heal(p) ==
  /\ pc[p] = "uc_heal"
  /\ LET id == loc[p].complaint.asset_id IN
     assets' = IF id \in DOMAIN assets
               THEN [assets EXCEPT ![id] =
                       SetColumns(@, [condition |-> "GOOD", updated_at |-> clock])]
               ELSE assets
  /\ Goto(p, "uc_heal_history", loc[p])
  /\ UNCHANGED <<users, complaints, maintenance, history, logs, clock, minted, call, pre>>

\* insert the condition row
UC_HealHistory(p) ==
  /\ pc[p] = "uc_heal_history"
  /\ LET id == loc[p].complaint.asset_id IN
     IF id \notin DOMAIN assets
     THEN /\ UNCHANGED history
          /\ Throw(p, "ForeignKeyViolation")
     ELSE /\ history' = Append(history, HistoryRow(id, "condition", "UNDER_REPAIR", "GOOD", clock))
          /\ Return(p, loc[p].updatedComplaint)
  /\ UNCHANGED <<assets, users, complaints, maintenance, logs, clock, minted, call, pre>>

UpdateComplaintStep(p) ==
  \/ UC_Select(p) \/ UC_Update(p) \/ UC_History(p) \/ UC_Others(p)
  \/ UC_Asset(p) \/ UC_Heal(p) \/ UC_HealHistory(p)

(***************************************************************************)
(* createUser                                                              *)
(***************************************************************************)
\* hashPassword: the hex SHA-256 digest of the password.
HashPassword(password) == <<"sha256", password>>

\* The row createUser inserts.
NewUserRow(id, input, now) ==
  [id |-> id, email |-> input.email, password_hash |-> HashPassword(input.password),
   role |-> input.role, full_name |-> input.full_name, is_active |-> TRUE,
   created_at |-> now, updated_at |-> now]

\* users.email is unique.
EmailTaken(email) == \E u \in DOMAIN users : users[u].email = email

\* One user_activity_logs row.
LogRow(user_id, action, entity_type, entity_id, details, now) ==
  [user_id |-> user_id, action |-> action, entity_type |-> entity_type,
   entity_id |-> entity_id, details |-> details, timestamp |-> now]

CallCreateUser(p, inputs) ==
  /\ CanBegin(p)
  /\ \E input \in inputs : Begin(p, [op |-> "createUser", input |-> input], "cu_insert")

\* insert the user under a fresh id
CU_Insert(p) ==
  /\ pc[p] = "cu_insert"
  /\ LET userId == FreshId
         row == NewUserRow(userId, call[p].input, clock)
     IN /\ minted' = minted + 1
        /\ IF EmailTaken(call[p].input.email)
           THEN /\ UNCHANGED users
                /\ Throw(p, "UniqueViolation")
           ELSE /\ users' = [id \in DOMAIN users \cup {userId} |->
                               IF id = userId THEN row ELSE users[id]]
                /\ Goto(p, "cu_log", [user |-> row])
  /\ UNCHANGED <<assets, complaints, maintenance, history, logs, clock, call, pre>>

\* log the creation
CU_Log(p) ==
  /\ pc[p] = "cu_log"
  /\ LET user == loc[p].user IN
     /\ logs' = Append(logs, LogRow(user.id, "CREATE_USER", "USER", user.id,
                                    <<"User account created", call[p].input.email,
                                      call[p].input.role>>, clock))
     /\ Return(p, user)
  /\ UNCHANGED <<assets, users, complaints, maintenance, history, clock, minted, call, pre>>

CreateUserStep(p) == CU_Insert(p) \/ CU_Log(p)

(***************************************************************************)
(* Credentials: Bun.password, the external hashing collaborator.           *)
(***************************************************************************)
\* Bun.password.hash(password): an argon2id hash string; rejects an empty password.
BunPasswordHash(password) == <<"$argon2id$", password>>

\* Bun.password.verify(password, hash): the algorithm is read from the hash's
\* prefix; a hash that is not one of Bun's (the hex digest createUser
\* stores, the literal 'N/A') is rejected with an error.
BunPasswordVerify(password, hash) ==
  IF hash[1] # "$argon2id$" THEN "UnsupportedAlgorithm"
  ELSE IF hash[2] = password /\ password # "" THEN "true" ELSE "false"

(***************************************************************************)
(* deleteUser                                                              *)
(***************************************************************************)
NeverDeactivated(existingUser) == FALSE

\* !existingUser[0].is_active
AlreadyDeactivated(existingUser) == ~existingUser.is_active

CallDeleteUser(p, ids) ==
  /\ CanBegin(p)
  /\ \E id \in ids : Begin(p, [op |-> "deleteUser", id |-> id], "du_select")

\* select the user; throw if it is missing or already inactive
DU_Select(p) ==
  /\ pc[p] = "du_select"
  /\ LET existingUser == First(IF call[p].id \in DOMAIN users THEN <<users[call[p].id]>> ELSE <<>>)
     IN IF existingUser = UndefinedRow
        THEN Throw(p, "NotFound")
        ELSE IF AlreadyDeactivated(existingUser)
             THEN Throw(p, "AlreadyDeactivated")
             ELSE Goto(p, "du_update", [existingUser |-> existingUser])
  /\ UNCHANGED <<store, clock, minted, call, pre>>

\* set is_active = false and refresh updated_at
DU_Update(p) ==
  /\ pc[p] = "du_update"
  /\ users' = [u \in DOMAIN users |->
                 IF u = call[p].id
                 THEN SetColumns(users[u], [is_active |-> FALSE, updated_at |-> clock])
                 ELSE users[u]]
  /\ Goto(p, "du_log", loc[p])
  /\ UNCHANGED <<assets, complaints, maintenance, history, logs, clock, minted, call, pre>>

\* log the deactivation under the deactivated user's own id
DU_Log(p) ==
  /\ pc[p] = "du_log"
  /\ IF call[p].id \in DOMAIN users
     THEN /\ logs' = Append(logs, LogRow(call[p].id, "USER_DEACTIVATED", "USER", call[p].id,
                                         <<"User", loc[p].existingUser.email, "has been deactivated">>,
                                         clock))
          /\ Return(p, [success |-> TRUE])
     ELSE /\ UNCHANGED logs
          /\ Throw(p, "ForeignKeyViolation")
  /\ UNCHANGED <<assets, users, complaints, maintenance, history, clock, minted, call, pre>>

DeleteUserStep(p) == DU_Select(p) \/ DU_Update(p) \/ DU_Log(p)

(***************************************************************************)
(* updateUser                                                              *)
(***************************************************************************)
UserFields == <<"email", "password", "role", "full_name", "is_active">>

\* updateData: updated_at, the provided fields, the password hashed.
UserUpdateData(input, now) ==
  [k \in {"updated_at"}
         \cup {IF f = "password" THEN "password_hash" ELSE f :
                 f \in {g \in Range(UserFields) : input[g] # <<>>}} |->
     CASE k = "updated_at" -> now
       [] k = "password_hash" -> BunPasswordHash(input.password[1])
       [] OTHER -> input[k][1]]

\* `${value}` of field f: a boolean prints as true or false.
Interpolated(f, v) == IF f = "is_active" THEN (IF v THEN "true" ELSE "false") ELSE v

\* changes: one description per provided field, in the order of the checks.
RECURSIVE UserChangesFrom(_, _, _)
UserChangesFrom(input, existingUser, i) ==
  IF i > Len(UserFields) THEN <<>>
  ELSE LET f == UserFields[i]
           rest == UserChangesFrom(input, existingUser, i + 1)
       IN IF input[f] = <<>> THEN rest
          ELSE IF f = "password" THEN <<<<"password updated">>>> \o rest
          ELSE <<<<f, "changed from", Interpolated(f, existingUser[f]), "to",
                   Interpolated(f, input[f][1])>>>> \o rest

UserChanges(input, existingUser) == UserChangesFrom(input, existingUser, 1)

CallUpdateUser(p, inputs) ==
  /\ CanBegin(p)
  /\ \E input \in inputs : Begin(p, [op |-> "updateUser", input |-> input], "uu_select")

\* select the user; return it unchanged if the input provides no field
UU_Select(p) ==
  /\ pc[p] = "uu_select"
  /\ LET input == call[p].input
         existingUser == First(IF input.id \in DOMAIN users THEN <<users[input.id]>> ELSE <<>>)
     IN IF existingUser = UndefinedRow
        THEN Throw(p, "NotFound")
        ELSE IF DOMAIN UserUpdateData(input, clock) = {"updated_at"}
             THEN Return(p, existingUser)
             ELSE Goto(p, "uu_update", [existingUser |-> existingUser,
                                        updateData |-> UserUpdateData(input, clock)])
  /\ UNCHANGED <<store, clock, minted, call, pre>>

\* update the row; the store rejects an email another user holds
UU_Update(p) ==
  /\ pc[p] = "uu_update"
  /\ LET id == call[p].input.id
         updateData == loc[p].updateData
     IN IF /\ "email" \in DOMAIN updateData
           /\ \E u \in DOMAIN users \ {id} : users[u].email = updateData.email
        THEN /\ UNCHANGED users
             /\ Throw(p, "UniqueViolation")
        ELSE /\ users' = [u \in DOMAIN users |->
                            IF u = id THEN SetColumns(users[u], updateData) ELSE users[u]]
             /\ Goto(p, "uu_log",
                     [existingUser |-> loc[p].existingUser,
                      result |-> IF id \in DOMAIN users
                                 THEN <<SetColumns(users[id], updateData)>> ELSE <<>>])
  /\ UNCHANGED <<assets, complaints, maintenance, history, logs, clock, minted, call, pre>>

\* log the update
UU_Log(p) ==
  /\ pc[p] = "uu_log"
  /\ LET id == call[p].input.id IN
     IF id \in DOMAIN users
     THEN /\ logs' = Append(logs, LogRow(id, "UPDATE", "USER", id,
                                         UserChanges(call[p].input, loc[p].existingUser), clock))
          /\ Return(p, First(loc[p].result))
     ELSE /\ UNCHANGED logs
          /\ Throw(p, "ForeignKeyViolation")
  /\ UNCHANGED <<assets, users, complaints, maintenance, history, clock, minted, call, pre>>

UpdateUserStep(p) == UU_Select(p) \/ UU_Update(p) \/ UU_Log(p)

(***************************************************************************)
(* loginUser                                                               *)
(***************************************************************************)
\* What loginUser returns for null.
NullResult == [null |-> TRUE]

\* user without password_hash
WithoutPassword(user) == [k \in DOMAIN user \ {"password_hash"} |-> user[k]]

\* sign({userId, email, role}, jwtSecret, {expiresIn: '24h'})
SignedToken(user) == <<"jwt", user.id, user.email, user.role>>

InactiveMayLogin(user) == FALSE

\* !user.is_active
AccountDisabled(user) == ~user.is_active

CallLoginUser(p, inputs) ==
  /\ CanBegin(p)
  /\ \E input \in inputs : Begin(p, [op |-> "loginUser", input |-> input], "lu_select")

\* find the user by email, check that it is active, verify the password
LU_Select(p) ==
  /\ pc[p] = "lu_select"
  /\ LET input == call[p].input
         found == {u \in DOMAIN users : users[u].email = input.email}
     IN IF found = {}
        THEN Return(p, NullResult)
        ELSE LET user == users[CHOOSE u \in found : TRUE] IN
             IF AccountDisabled(user)
             THEN Return(p, NullResult)
             ELSE IF input.password = ""
                  THEN Throw(p, "EmptyPassword")
                  ELSE CASE BunPasswordVerify(input.password, user.password_hash) = "true" ->
                              Goto(p, "lu_log", [user |-> user])
                         [] BunPasswordVerify(input.password, user.password_hash) = "false" ->
                              Return(p, NullResult)
                         [] OTHER ->
                              Throw(p, BunPasswordVerify(input.password, user.password_hash))
  /\ UNCHANGED <<store, clock, minted, call, pre>>

\* log the login and return the user and the token
LU_Log(p) ==
  /\ pc[p] = "lu_log"
  /\ LET user == loc[p].user IN
     IF user.id \in DOMAIN users
     THEN /\ logs' = Append(logs, LogRow(user.id, "LOGIN", "USER", user.id,
                                         <<"User logged in from email", call[p].input.email>>, clock))
          /\ Return(p, [user |-> WithoutPassword(user), token |-> SignedToken(user)])
     ELSE /\ UNCHANGED logs
          /\ Throw(p, "ForeignKeyViolation")
  /\ UNCHANGED <<assets, users, complaints, maintenance, history, clock, minted, call, pre>>

LoginUserStep(p) == LU_Select(p) \/ LU_Log(p)

(***************************************************************************)
(* getAssets.  An optional filter is <<>> when absent and <<value>> when    *)
(* given.                                                                  *)
(***************************************************************************)
\* The characters of the strings that names, descriptions and search terms
\* range over.
Characters(string) ==
  CASE string = "" -> <<>>
    [] string = " " -> <<" ">>
    [] string = "a" -> <<"a">>
    [] string = "B" -> <<"B">>
    [] string = "_" -> <<"_">>
    [] string = "%" -> <<"%">>
    [] string = "ab" -> <<"a", "b">>
    [] string = "Ba" -> <<"B", "a">>
    [] string = "b" -> <<"b">>
    [] string = " a" -> <<" ", "a">>

\* Case folding of ILIKE.
LowerCase(c) == CASE c = "A" -> "a" [] c = "B" -> "b" [] OTHER -> c

\* text LIKE pattern: % matches any sequence, _ any one character.
RECURSIVE LikeMatch(_, _)
LikeMatch(text, pattern) ==
  IF pattern = <<>> THEN text = <<>>
  ELSE IF Head(pattern) = "%"
       THEN \/ LikeMatch(text, Tail(pattern))
            \/ text # <<>> /\ LikeMatch(Tail(text), pattern)
       ELSE /\ text # <<>>
            /\ Head(pattern) = "_" \/ LowerCase(Head(pattern)) = LowerCase(Head(text))
            /\ LikeMatch(Tail(text), Tail(pattern))

\* ilike(column, `%${search}%`); a null column matches nothing.
ILikeContains(column, search) ==
  IF column = NULL THEN FALSE
  ELSE LikeMatch(Characters(column), <<"%">> \o Characters(search) \o <<"%">>)

\* filters.search && filters.search.trim()
SearchGiven(search) == \E i \in 1..Len(Characters(search)) : Characters(search)[i] # " "

OwnerMatchesLiterally(owner, row) == row.owner = owner

\* isNull(owner) for '' and 'null', eq(owner, filters.owner) otherwise
OwnerMatches(owner, row) ==
  IF owner = "" \/ owner = "null" THEN row.owner = NULL ELSE row.owner = owner

\* and(...conditions): every condition pushed for the filters holds of the row.
AllConditions(row, filters) ==
  /\ (filters.search # <<>> /\ SearchGiven(filters.search[1])) =>
       \/ ILikeContains(row.name, filters.search[1])
       \/ ILikeContains(row.description, filters.search[1])
  /\ (filters.category # <<>> /\ Truthy(filters.category[1])) => row.category = filters.category[1]
  /\ (filters.condition # <<>> /\ Truthy(filters.condition[1])) => row.condition = filters.condition[1]
  /\ filters.owner # <<>> => OwnerMatches(filters.owner[1], row)
  /\ filters.is_archived # <<>> => row.is_archived = filters.is_archived[1]

\* The rows getAssets returns (in no stated order).
GetAssets(optionalFilters) ==
  IF optionalFilters = <<>> THEN {assets[a] : a \in DOMAIN assets}
  ELSE {assets[a] : a \in {b \in DOMAIN assets : AllConditions(assets[b], optionalFilters[1])}}

CallGetAssets(p, inputs) ==
  /\ CanBegin(p)
  /\ \E filters \in inputs : Begin(p, [op |-> "getAssets", filters |-> filters], "ga_query")

GA_Query(p) ==
  /\ pc[p] = "ga_query"
  /\ Return(p, GetAssets(call[p].filters))
  /\ UNCHANGED <<store, clock, minted, call, pre>>

(***************************************************************************)
(* getDashboardStats.  The clock counts days.                              *)
(***************************************************************************)
ThirtyDays == 30
SevenDays == 7

AllAssetRows == DOMAIN assets

\* where(eq(assetsTable.is_archived, false))
NonArchivedAssets == {a \in DOMAIN assets : assets[a].is_archived = FALSE}

\* select column, count() ... group by column, folded into a record by forEach
CountBy(column) ==
  [v \in {assets[a][column] : a \in NonArchivedAssets} |->
     Cardinality({a \in NonArchivedAssets : assets[a][column] = v})]

CallGetDashboardStats(p) ==
  /\ CanBegin(p)
  /\ Begin(p, [op |-> "getDashboardStats"], "ds_total")

DS_Total(p) ==
  /\ pc[p] = "ds_total"
  /\ Goto(p, "ds_archived", [total_assets |-> Cardinality(DOMAIN assets)])
  /\ UNCHANGED <<store, clock, minted, call, pre>>

DS_Archived(p) ==
  /\ pc[p] = "ds_archived"
  /\ Goto(p, "ds_by_condition",
          [total_assets |-> loc[p].total_assets,
           archived_assets |-> Cardinality({a \in DOMAIN assets : assets[a].is_archived = TRUE})])
  /\ UNCHANGED <<store, clock, minted, call, pre>>

DS_ByCondition(p) ==
  /\ pc[p] = "ds_by_condition"
  /\ Goto(p, "ds_by_category",
          [total_assets |-> loc[p].total_assets, archived_assets |-> loc[p].archived_assets,
           assets_by_condition |-> CountBy("condition")])
  /\ UNCHANGED <<store, clock, minted, call, pre>>

DS_ByCategory(p) ==
  /\ pc[p] = "ds_by_category"
  /\ Goto(p, "ds_pending",
          [total_assets |-> loc[p].total_assets, archived_assets |-> loc[p].archived_assets,
           assets_by_condition |-> loc[p].assets_by_condition,
           assets_by_category |-> CountBy("category")])
  /\ UNCHANGED <<store, clock, minted, call, pre>>

DS_Pending(p) ==
  /\ pc[p] = "ds_pending"
  /\ Goto(p, "ds_upcoming",
          [total_assets |-> loc[p].total_assets, archived_assets |-> loc[p].archived_assets,
           assets_by_condition |-> loc[p].assets_by_condition,
           assets_by_category |-> loc[p].assets_by_category,
           pending_complaints |->
             Cardinality({c \in DOMAIN complaints : complaints[c].status # "RESOLVED"})])
  /\ UNCHANGED <<store, clock, minted, call, pre>>

DS_Upcoming(p) ==
  /\ pc[p] = "ds_upcoming"
  /\ Goto(p, "ds_recent",
          [total_assets |-> loc[p].total_assets, archived_assets |-> loc[p].archived_assets,
           assets_by_condition |-> loc[p].assets_by_condition,
           assets_by_category |-> loc[p].assets_by_category,
           pending_complaints |-> loc[p].pending_complaints,
           upcoming_maintenance |->
             Cardinality({m \in DOMAIN maintenance :
                            /\ maintenance[m].is_completed = FALSE
                            /\ maintenance[m].scheduled_date >= clock
                            /\ maintenance[m].scheduled_date <= clock + ThirtyDays})])
  /\ UNCHANGED <<store, clock, minted, call, pre>>

DS_Recent(p) ==
  /\ pc[p] = "ds_recent"
  /\ Return(p, [total_assets |-> loc[p].total_assets,
                assets_by_condition |-> loc[p].assets_by_condition,
                assets_by_category |-> loc[p].assets_by_category,
                pending_complaints |-> loc[p].pending_complaints,
                upcoming_maintenance |-> loc[p].upcoming_maintenance,
                recent_activities |->
                  Cardinality({i \in 1..Len(logs) : logs[i].timestamp >= clock - SevenDays}),
                archived_assets |-> loc[p].archived_assets])
  /\ UNCHANGED <<store, clock, minted, call, pre>>

GetDashboardStatsStep(p) ==
  \/ DS_Total(p) \/ DS_Archived(p) \/ DS_ByCondition(p) \/ DS_ByCategory(p)
  \/ DS_Pending(p) \/ DS_Upcoming(p) \/ DS_Recent(p)

(***************************************************************************)
(* createMaintenance                                                       *)
(***************************************************************************)
\* The row createMaintenance inserts.
NewMaintenanceRow(id, input, now) ==
  [id |-> id, asset_id |-> input.asset_id, title |-> input.title,
   description |-> input.description, scheduled_date |-> input.scheduled_date,
   is_completed |-> FALSE, created_by |-> input.created_by,
   created_at |-> now, updated_at |-> now]

CallCreateMaintenance(p, inputs) ==
  /\ CanBegin(p)
  /\ \E input \in inputs :
       Begin(p, [op |-> "createMaintenance", input |-> input], "cm_select_asset")

\* verify the asset exists
CM_SelectAsset(p) ==
  /\ pc[p] = "cm_select_asset"
  /\ IF call[p].input.asset_id \notin DOMAIN assets
     THEN Throw(p, "NotFound")
     ELSE Goto(p, "cm_select_user", NoLocals)
  /\ UNCHANGED <<store, clock, minted, call, pre>>

\* verify the user exists; generate the id and take the time
CM_SelectUser(p) ==
  /\ pc[p] = "cm_select_user"
  /\ IF call[p].input.created_by \notin DOMAIN users
     THEN Throw(p, "NotFound") /\ UNCHANGED minted
     ELSE /\ minted' = minted + 1
          /\ Goto(p, "cm_insert", [maintenanceId |-> FreshId, now |-> clock, row |-> UndefinedRow])
  /\ UNCHANGED <<store, clock, call, pre>>

\* insert the schedule
CM_Insert(p) ==
  /\ pc[p] = "cm_insert"
  /\ LET input == call[p].input
         id == loc[p].maintenanceId
         row == NewMaintenanceRow(id, input, loc[p].now)
     IN IF input.asset_id \in DOMAIN assets /\ input.created_by \in DOMAIN users
        THEN /\ maintenance' = [m \in DOMAIN maintenance \cup {id} |->
                                  IF m = id THEN row ELSE maintenance[m]]
             /\ Goto(p, "cm_log", [loc[p] EXCEPT !.row = row])
        ELSE /\ UNCHANGED maintenance
             /\ Throw(p, "ForeignKeyViolation")
  /\ UNCHANGED <<assets, users, complaints, history, logs, clock, minted, call, pre>>

\* log the scheduling
CM_Log(p) ==
  /\ pc[p] = "cm_log"
  /\ LET input == call[p].input IN
     /\ logs' = Append(logs, LogRow(input.created_by, "CREATE_MAINTENANCE", "MAINTENANCE_SCHEDULE",
                                    loc[p].maintenanceId,
                                    <<"Scheduled maintenance", input.title, input.asset_id,
                                      input.scheduled_date>>, loc[p].now))
     /\ Return(p, loc[p].row)
  /\ UNCHANGED <<assets, users, complaints, maintenance, history, clock, minted, call, pre>>

CreateMaintenanceStep(p) ==
  CM_SelectAsset(p) \/ CM_SelectUser(p) \/ CM_Insert(p) \/ CM_Log(p)

(***************************************************************************)
(* restoreAsset                                                            *)
(***************************************************************************)
systemUserId == "system"
systemEmail == "system@internal.com"

\* The system user row restoreAsset inserts.
SystemUserRow(now) ==
  [id |-> systemUserId, email |-> systemEmail, password_hash |-> <<"literal", "N/A">>,
   role |-> "ADMIN", full_name |-> "System User", is_active |-> FALSE,
   created_at |-> now, updated_at |-> now]

NeverNotArchived(existingAsset) == FALSE

\* !existingAsset.is_archived
NotArchived(existingAsset) == ~existingAsset.is_archived

CallRestoreAsset(p, ids) ==
  /\ CanBegin(p)
  /\ \E id \in ids : Begin(p, [op |-> "restoreAsset", id |-> id], "ra_select")

\* check that the asset exists and is archived
RA_Select(p) ==
  /\ pc[p] = "ra_select"
  /\ IF call[p].id \notin DOMAIN assets
     THEN Throw(p, "NotFound")
     ELSE IF NotArchived(assets[call[p].id])
          THEN Throw(p, "NotArchived")
          ELSE Goto(p, "ra_update", NoLocals)
  /\ UNCHANGED <<store, clock, minted, call, pre>>

RA_UpdateAsNew(p) ==
  /\ pc[p] = "ra_update"
  /\ LET id == call[p].id IN
     IF id \in DOMAIN assets
     THEN /\ assets' = [assets EXCEPT ![id] =
                          SetColumns(@, [is_archived |-> FALSE, condition |-> "NEW",
                                         updated_at |-> clock])]
          /\ Goto(p, "ra_select_system", [restoredAsset |-> First(<<assets'[id]>>)])
     ELSE /\ UNCHANGED assets
          /\ Goto(p, "ra_select_system", [restoredAsset |-> First(<<>>)])
  /\ UNCHANGED <<users, complaints, maintenance, history, logs, clock, minted, call, pre>>

\* update assets set is_archived = false, updated_at = now where id returning *
RA_Update(p) ==
  /\ pc[p] = "ra_update"
  /\ LET id == call[p].id IN
     IF id \in DOMAIN assets
     THEN /\ assets' = [assets EXCEPT ![id] =
                          SetColumns(@, [is_archived |-> FALSE, updated_at |-> clock])]
          /\ Goto(p, "ra_select_system", [restoredAsset |-> First(<<assets'[id]>>)])
     ELSE /\ UNCHANGED assets
          /\ Goto(p, "ra_select_system", [restoredAsset |-> First(<<>>)])
  /\ UNCHANGED <<users, complaints, maintenance, history, logs, clock, minted, call, pre>>

\* look for the system user
RA_SelectSystem(p) ==
  /\ pc[p] = "ra_select_system"
  /\ IF systemUserId \in DOMAIN users
     THEN Goto(p, "ra_log", loc[p])
     ELSE Goto(p, "ra_insert_system", loc[p])
  /\ UNCHANGED <<store, clock, minted, call, pre>>

\* insert the system user
RA_InsertSystem(p) ==
  /\ pc[p] = "ra_insert_system"
  /\ IF systemUserId \in DOMAIN users \/ EmailTaken(systemEmail)
     THEN /\ UNCHANGED users
          /\ Throw(p, "UniqueViolation")
     ELSE /\ users' = [id \in DOMAIN users \cup {systemUserId} |->
                         IF id = systemUserId THEN SystemUserRow(clock) ELSE users[id]]
          /\ Goto(p, "ra_log", loc[p])
  /\ UNCHANGED <<assets, complaints, maintenance, history, logs, clock, minted, call, pre>>

\* log the restoration; restoredAsset.name throws when no row was updated
RA_Log(p) ==
  /\ pc[p] = "ra_log"
  /\ LET restoredAsset == loc[p].restoredAsset IN
     IF restoredAsset = UndefinedRow
     THEN /\ UNCHANGED logs
          /\ Throw(p, "TypeError")
     ELSE /\ logs' = Append(logs, LogRow(systemUserId, "RESTORE_ASSET", "ASSET", call[p].id,
                                         <<"Asset restored from archive", restoredAsset.name>>,
                                         clock))
          /\ Return(p, restoredAsset)
  /\ UNCHANGED <<assets, users, complaints, maintenance, history, clock, minted, call, pre>>

RestoreAssetStep(p) ==
  \/ RA_Select(p) \/ RA_Update(p) \/ RA_SelectSystem(p) \/ RA_InsertSystem(p) \/ RA_Log(p)

(***************************************************************************)
(* deleteAsset                                                             *)
(***************************************************************************)
NeverMissing(existingAsset) == FALSE

\* existingAsset.length === 0
NoSuchAsset(existingAsset) == existingAsset = {}

DropAllHistory(id) == <<>>

\* delete from complaints / asset_history / maintenance_schedules where asset_id = id
ComplaintsWithout(id) ==
  [c \in {d \in DOMAIN complaints : complaints[d].asset_id # id} |-> complaints[c]]

HistoryWithout(id) == SelectSeq(history, LAMBDA r : r.asset_id # id)

MaintenanceWithout(id) ==
  [m \in {d \in DOMAIN maintenance : maintenance[d].asset_id # id} |-> maintenance[m]]

\* permanent: boolean = false; optional is <<>> when the caller passes no flag
Permanent(c) == IF c.optional = <<>> THEN FALSE ELSE c.optional[1]

CallDeleteAsset(p, ids, flags) ==
  /\ CanBegin(p)
  /\ \E id \in ids, optional \in flags :
       Begin(p, [op |-> "deleteAsset", id |-> id, optional |-> optional], "da_select")

\* check that the asset exists
DA_Select(p) ==
  /\ pc[p] = "da_select"
  /\ LET existingAsset == {assets[a] : a \in DOMAIN assets \cap {call[p].id}} IN
     IF NoSuchAsset(existingAsset)
     THEN Return(p, [success |-> FALSE])
     ELSE IF Permanent(call[p])
          THEN Goto(p, "da_complaints", NoLocals)
          ELSE Goto(p, "da_archive", NoLocals)
  /\ UNCHANGED <<store, clock, minted, call, pre>>

DA_Complaints(p) ==
  /\ pc[p] = "da_complaints"
  /\ complaints' = ComplaintsWithout(call[p].id)
  /\ Goto(p, "da_history", NoLocals)
  /\ UNCHANGED <<assets, users, maintenance, history, logs, clock, minted, call, pre>>

DA_History(p) ==
  /\ pc[p] = "da_history"
  /\ history' = HistoryWithout(call[p].id)
  /\ Goto(p, "da_maintenance", NoLocals)
  /\ UNCHANGED <<assets, users, complaints, maintenance, logs, clock, minted, call, pre>>

DA_Maintenance(p) ==
  /\ pc[p] = "da_maintenance"
  /\ maintenance' = MaintenanceWithout(call[p].id)
  /\ Goto(p, "da_asset", NoLocals)
  /\ UNCHANGED <<assets, users, complaints, history, logs, clock, minted, call, pre>>

\* delete from assets where id; rows that still reference the asset forbid it
DA_Asset(p) ==
  /\ pc[p] = "da_asset"
  /\ IF AssetReferenced(call[p].id)
     THEN /\ UNCHANGED assets
          /\ Throw(p, "ForeignKeyViolation")
     ELSE /\ assets' = [a \in DOMAIN assets \ {call[p].id} |-> assets[a]]
          /\ Return(p, [success |-> TRUE])
  /\ UNCHANGED <<users, complaints, maintenance, history, logs, clock, minted, call, pre>>

DA_ArchiveOnce(p) ==
  /\ pc[p] = "da_archive"
  /\ LET id == call[p].id IN
     IF id \in DOMAIN assets /\ ~assets[id].is_archived
     THEN /\ assets' = [assets EXCEPT ![id] =
                          SetColumns(@, [is_archived |-> TRUE, updated_at |-> clock])]
          /\ Return(p, [success |-> TRUE])
     ELSE /\ UNCHANGED assets
          /\ Return(p, [success |-> FALSE])
  /\ UNCHANGED <<users, complaints, maintenance, history, logs, clock, minted, call, pre>>

DA_ArchiveDroppingHistory(p) ==
  /\ pc[p] = "da_archive"
  /\ LET id == call[p].id IN
     /\ assets' = IF id \in DOMAIN assets
                  THEN [assets EXCEPT ![id] =
                          SetColumns(@, [is_archived |-> TRUE, updated_at |-> clock])]
                  ELSE assets
     /\ history' = HistoryWithout(id)
  /\ Return(p, [success |-> TRUE])
  /\ UNCHANGED <<users, complaints, maintenance, logs, clock, minted, call, pre>>

\* soft delete: update assets set is_archived = true, updated_at = now where id
DA_Archive(p) ==
  /\ pc[p] = "da_archive"
  /\ LET id == call[p].id IN
     assets' = IF id \in DOMAIN assets
               THEN [assets EXCEPT ![id] =
                       SetColumns(@, [is_archived |-> TRUE, updated_at |-> clock])]
               ELSE assets
  /\ Return(p, [success |-> TRUE])
  /\ UNCHANGED <<users, complaints, maintenance, history, logs, clock, minted, call, pre>>

DeleteAssetStep(p) ==
  \/ DA_Select(p) \/ DA_Complaints(p) \/ DA_History(p) \/ DA_Maintenance(p)
  \/ DA_Asset(p) \/ DA_Archive(p)

(***************************************************************************)
(* Rows the creating handlers insert, used to seed the store.              *)
(***************************************************************************)
\* The row createAsset inserts for an input.
NewAssetRow(id, input, now) ==
  [id |-> id, name |-> input.name, description |-> input.description,
   category |-> input.category, condition |-> input.condition,
   owner |-> input.owner, photo_url |-> input.photo_url,
   qr_code |-> <<"QR_", id>>, is_archived |-> FALSE,
   created_at |-> now, updated_at |-> now]

(***************************************************************************)
(* createAsset                                                             *)
(***************************************************************************)
\* assets.qr_code is unique.
QrTaken(qr_code) == \E a \in DOMAIN assets : assets[a].qr_code = qr_code

CreationLogRowAboutOwner(input, asset, now) ==
  LogRow(input.owner, "CREATE", "ASSET", input.owner,
         <<"Created asset", asset.name, asset.category>>, now)

\* The activity-log row createAsset inserts.
CreationLogRow(input, asset, now) ==
  LogRow(input.owner, "CREATE", "ASSET", asset.id,
         <<"Created asset", asset.name, asset.category>>, now)

CallCreateAsset(p, inputs) ==
  /\ CanBegin(p)
  /\ \E input \in inputs : Begin(p, [op |-> "createAsset", input |-> input], "ca_insert")

\* insert the asset under a fresh id; go on to logging if (input.owner)
CA_Insert(p) ==
  /\ pc[p] = "ca_insert"
  /\ LET id == FreshId
         asset == NewAssetRow(id, call[p].input, clock)
     IN /\ minted' = minted + 1
        /\ IF QrTaken(asset.qr_code)
           THEN /\ UNCHANGED assets
                /\ Throw(p, "UniqueViolation")
           ELSE /\ assets' = [a \in DOMAIN assets \cup {id} |->
                                IF a = id THEN asset ELSE assets[a]]
                /\ IF Truthy(call[p].input.owner)
                   THEN Goto(p, "ca_select_user", [asset |-> asset])
                   ELSE Return(p, asset)
  /\ UNCHANGED <<users, complaints, maintenance, history, logs, clock, call, pre>>

\* check that a user with id = owner exists
CA_SelectUser(p) ==
  /\ pc[p] = "ca_select_user"
  /\ LET userExists == {u \in DOMAIN users : u = call[p].input.owner}
     IN IF userExists # {}
        THEN Goto(p, "ca_log", loc[p])
        ELSE Return(p, loc[p].asset)
  /\ UNCHANGED <<store, clock, minted, call, pre>>

\* log the creation; an error of the insert is caught and discarded
CA_Log(p) ==
  /\ pc[p] = "ca_log"
  /\ LET asset == loc[p].asset IN
     /\ IF call[p].input.owner \in DOMAIN users
        THEN logs' = Append(logs, CreationLogRow(call[p].input, asset, clock))
        ELSE UNCHANGED logs
     /\ Return(p, asset)
  /\ UNCHANGED <<assets, users, complaints, maintenance, history, clock, minted, call, pre>>

CreateAssetStep(p) == CA_Insert(p) \/ CA_SelectUser(p) \/ CA_Log(p)

(***************************************************************************)
(* Store failures.  An awaited statement may be rejected by the store      *)
(* (connection lost, statement aborted) without having had any effect.     *)
(* The locals then record the statement that failed.                       *)
(***************************************************************************)
\* Statements inside createAsset's inner try block.
SwallowedStatements == {"ca_select_user", "ca_log"}

RethrowLogError(p) ==
  /\ pc[p] \in SwallowedStatements
  /\ pc' = [pc EXCEPT ![p] = "done"]
  /\ ret' = [ret EXCEPT ![p] = [status |-> "error", error |-> "StoreFailure"]]
  /\ loc' = [loc EXCEPT ![p] = [failed |-> pc[p]]]
  /\ UNCHANGED <<store, clock, minted, call, pre>>

\* createAsset: catch (logError) { console.warn(...) }, then return asset.
CA_LogFails(p) ==
  /\ pc[p] \in SwallowedStatements
  /\ pc' = [pc EXCEPT ![p] = "done"]
  /\ ret' = [ret EXCEPT ![p] = [status |-> "ok", value |-> loc[p].asset]]
  /\ loc' = [loc EXCEPT ![p] = [failed |-> pc[p]]]
  /\ UNCHANGED <<store, clock, minted, call, pre>>

\* As StoreFails below, with the writes of the call undone.
StoreFailsRollingBack(p) ==
  /\ pc[p] \notin {"idle", "done"} \cup SwallowedStatements
  /\ pc' = [pc EXCEPT ![p] = "done"]
  /\ ret' = [ret EXCEPT ![p] = [status |-> "error", error |-> "StoreFailure"]]
  /\ loc' = [loc EXCEPT ![p] = [failed |-> pc[p]]]
  /\ assets' = pre[p].assets
  /\ users' = pre[p].users
  /\ complaints' = pre[p].complaints
  /\ maintenance' = pre[p].maintenance
  /\ history' = pre[p].history
  /\ logs' = pre[p].logs
  /\ UNCHANGED <<clock, minted, call, pre>>

\* Any other statement: the handler's catch block logs the error and rethrows it.
StoreFails(p) ==
  /\ pc[p] \notin {"idle", "done"} \cup SwallowedStatements
  /\ pc' = [pc EXCEPT ![p] = "done"]
  /\ ret' = [ret EXCEPT ![p] = [status |-> "error", error |-> "StoreFailure"]]
  /\ loc' = [loc EXCEPT ![p] = [failed |-> pc[p]]]
  /\ UNCHANGED <<store, clock, minted, call, pre>>

InitProcs ==
  /\ clock = 0
  /\ minted = 0
  /\ pc = [p \in Procs |-> "idle"]
  /\ call = [p \in Procs |-> NoCall]
  /\ loc = [p \in Procs |-> NoLocals]
  /\ ret = [p \in Procs |-> NoRet]
  /\ pre = [p \in Procs |-> NoLocals]

(***************************************************************************)
(* SpecAsset: one caller updating assets.  The store holds two assets as   *)
(* createAsset inserted them (a1 possibly archived by a soft delete).      *)
(***************************************************************************)
UpdateAssetInputs ==
  [id : {"a1", MissingId},
   name : {UNDEFINED, "n1", "n2"},
   description : {UNDEFINED, NULL, "d1"},
   category : {UNDEFINED} \cup Categories,
   condition : {UNDEFINED} \cup Conditions,
   owner : {UNDEFINED, NULL, "u1"},
   photo_url : {UNDEFINED, NULL, "f1"}]

InitAsset ==
  /\ \E d \in {NULL, "d1"}, o \in {NULL, "u1"}, f \in {NULL, "f1"}, arch \in BOOLEAN :
       assets = [id \in {"a1", "a2"} |->
          IF id = "a1"
          THEN [NewAssetRow("a1", [name |-> "n1", description |-> d, category |-> "MONITOR",
                                   condition |-> "GOOD", owner |-> o, photo_url |-> f], 0)
                  EXCEPT !.is_archived = arch]
          ELSE NewAssetRow("a2", [name |-> "n2", description |-> NULL, category |-> "CPU",
                                  condition |-> "NEW", owner |-> NULL, photo_url |-> NULL], 0)]
  /\ users = <<>>
  /\ complaints = <<>>
  /\ maintenance = <<>>
  /\ history = <<>>
  /\ logs = <<>>
  /\ InitProcs

NextAsset ==
  \/ CallUpdateAsset("p1", UpdateAssetInputs)
  \/ UpdateAssetStep("p1")
  \/ Reset("p1")

SpecAsset == InitAsset /\ [][NextAsset]_vars

(***************************************************************************)
(* SpecComplaint: one caller creating and updating complaints.  The store  *)
(* holds asset a1 in any condition with one or two complaints of any       *)
(* status, and asset a2 under repair with an unresolved complaint.         *)
(***************************************************************************)
BaseAssetInput(name, condition) ==
  [name |-> name, description |-> NULL, category |-> "MONITOR",
   condition |-> condition, owner |-> NULL, photo_url |-> NULL]

SeedComplaint(id, asset_id, status) ==
  NewComplaintRow(id, [asset_id |-> asset_id, complainant_name |-> "w1",
                       status |-> status, description |-> "t1"], 0)

UpdateComplaintInputs ==
  [id : {"c1", "c2", MissingId},
   status : {UNDEFINED} \cup Statuses,
   description : {UNDEFINED, "t2"}]

CreateComplaintInputs ==
  [asset_id : {"a1", MissingId}, complainant_name : {"w2"},
   status : Statuses, description : {"t3"}]

InitComplaint ==
  /\ \E cond \in Conditions :
       assets = [id \in {"a1", "a2"} |->
          IF id = "a1" THEN NewAssetRow("a1", BaseAssetInput("n1", cond), 0)
          ELSE NewAssetRow("a2", BaseAssetInput("n2", "UNDER_REPAIR"), 0)]
  /\ \E s1 \in Statuses, s2 \in Statuses \cup {UNDEFINED} :
       complaints = [id \in (IF s2 = UNDEFINED THEN {"c1", "c3"} ELSE {"c1", "c2", "c3"}) |->
          CASE id = "c1" -> SeedComplaint("c1", "a1", s1)
            [] id = "c2" -> SeedComplaint("c2", "a1", s2)
            [] id = "c3" -> SeedComplaint("c3", "a2", "NEEDS_REPAIR")]
  /\ users = <<>>
  /\ maintenance = <<>>
  /\ history = <<>>
  /\ logs = <<>>
  /\ InitProcs

NextComplaint ==
  \/ CallUpdateComplaint("p1", UpdateComplaintInputs)
  \/ UpdateComplaintStep("p1")
  \/ CallCreateComplaint("p1", CreateComplaintInputs)
  \/ CreateComplaintStep("p1")
  \/ Reset("p1")

SpecComplaint == InitComplaint /\ [][NextComplaint]_vars

(***************************************************************************)
(* SpecArchive: one caller archiving, restoring and deleting assets and    *)
(* creating users.  The store is what createUser, createAsset (twice),     *)
(* createComplaint, createMaintenance and updateAsset calls leave: user    *)
(* u1, assets a1 and a2 (each possibly archived by a soft delete), a2 with *)
(* a complaint, a schedule and a ledger row, a1 with or without them.      *)
(***************************************************************************)
SeedUser ==
  NewUserRow("u1", [email |-> "e1", password |-> "pw1", role |-> "ADMIN", full_name |-> "fn1"], 0)

SeedMaintenance(id, asset_id) ==
  NewMaintenanceRow(id, [asset_id |-> asset_id, title |-> "tt", description |-> NULL,
                         scheduled_date |-> 1, created_by |-> "u1"], 0)

SeedMaintenanceLog(id, asset_id) ==
  LogRow("u1", "CREATE_MAINTENANCE", "MAINTENANCE_SCHEDULE", id,
         <<"Scheduled maintenance", "tt", asset_id, 1>>, 0)

SeedComplaintId == [a1 |-> "c1", a2 |-> "c3"]
SeedMaintenanceId == [a1 |-> "m1", a2 |-> "m3"]

\* The store with dependents for the assets in withRows, archived as given.
SeededStore(withRows, archived) ==
  /\ assets = [id \in {"a1", "a2"} |->
       [NewAssetRow(id, BaseAssetInput("n1", IF id \in withRows THEN "GOOD" ELSE "NEW"), 0)
          EXCEPT !.is_archived = (id \in archived)]]
  /\ users = [id \in {"u1"} |-> SeedUser]
  /\ complaints = [c \in {SeedComplaintId[a] : a \in withRows} |->
       SeedComplaint(c, CHOOSE a \in withRows : SeedComplaintId[a] = c, "NEEDS_REPAIR")]
  /\ maintenance = [m \in {SeedMaintenanceId[a] : a \in withRows} |->
       SeedMaintenance(m, CHOOSE a \in withRows : SeedMaintenanceId[a] = m)]
  /\ history = [i \in 1..Cardinality(withRows) |->
       HistoryRow(IF "a1" \in withRows /\ i = 1 THEN "a1" ELSE "a2", "condition", "NEW", "GOOD", 0)]
  /\ logs = <<LogRow("u1", "CREATE_USER", "USER", "u1", <<"User account created", "e1", "ADMIN">>, 0)>>
            \o [i \in 1..Cardinality(withRows) |->
                  SeedMaintenanceLog(
                    SeedMaintenanceId[IF "a1" \in withRows /\ i = 1 THEN "a1" ELSE "a2"],
                    IF "a1" \in withRows /\ i = 1 THEN "a1" ELSE "a2")]

AssetIdInputs == {"a1", "a2", MissingId}
PermanentInputs == {<<>>, <<TRUE>>, <<FALSE>>}

CreateUserInputs ==
  [email : {"e1", "e2", systemEmail}, password : {"pw1"}, role : {"ADMIN", "EMPLOYEE"},
   full_name : {"fn2"}]

InitArchive ==
  /\ \E withRows \in {{"a2"}, {"a1", "a2"}}, archived \in SUBSET {"a1", "a2"} :
       SeededStore(withRows, archived)
  /\ InitProcs

NextArchive ==
  \/ CallRestoreAsset("p1", AssetIdInputs)
  \/ RestoreAssetStep("p1")
  \/ CallDeleteAsset("p1", AssetIdInputs, PermanentInputs)
  \/ DeleteAssetStep("p1")
  \/ CallCreateUser("p1", CreateUserInputs)
  \/ CreateUserStep("p1")
  \/ Reset("p1")

SpecArchive == InitArchive /\ [][NextArchive]_vars

(***************************************************************************)
(* SpecDeleteRace: a caller deleting assets while another creates          *)
(* complaints and maintenance schedules; statements of the two interleave. *)
(***************************************************************************)
CreateMaintenanceInputs ==
  [asset_id : {"a1", MissingId}, title : {"tt"}, description : {NULL},
   scheduled_date : {1}, created_by : {"u1", MissingId}]

InitDeleteRace ==
  /\ SeededStore({"a1", "a2"}, {})
  /\ InitProcs

NextDeleteRace ==
  \/ CallDeleteAsset("p1", {"a1", MissingId}, PermanentInputs)
  \/ DeleteAssetStep("p1")
  \/ CallCreateComplaint("p2", CreateComplaintInputs)
  \/ CreateComplaintStep("p2")
  \/ CallCreateMaintenance("p2", CreateMaintenanceInputs)
  \/ CreateMaintenanceStep("p2")
  \/ Reset("p1")
  \/ Reset("p2")

SpecDeleteRace == InitDeleteRace /\ [][NextDeleteRace]_vars

(***************************************************************************)
(* SpecLifecycle: one caller creating, updating, archiving, restoring and  *)
(* deleting assets, resolving complaints and deactivating users.  The      *)
(* store is what createUser (twice), deleteUser, createAsset (twice),      *)
(* deleteAsset and createComplaint calls leave: user u1 active, user u2    *)
(* deactivated, asset a1 under repair (possibly archived) with one         *)
(* complaint, asset a2.                                                    *)
(***************************************************************************)
SeedUserNamed(id, email) ==
  NewUserRow(id, [email |-> email, password |-> "pw1", role |-> "EMPLOYEE", full_name |-> "fn1"], 0)

CreateUserLog(user) ==
  LogRow(user.id, "CREATE_USER", "USER", user.id, <<"User account created", user.email, user.role>>, 0)

DeactivationLog(user) ==
  LogRow(user.id, "USER_DEACTIVATED", "USER", user.id, <<"User", user.email, "has been deactivated">>, 0)

CreateAssetInputs ==
  [name : {"n3"}, description : {NULL}, category : {"MONITOR"}, condition : {"NEW"},
   owner : {NULL, "", "u1", "u2", MissingId}, photo_url : {NULL}]

LifecycleUpdateAssetInputs ==
  [id : {"a1"}, name : {UNDEFINED, "n2"}, description : {UNDEFINED}, category : {UNDEFINED},
   condition : {UNDEFINED, "GOOD"}, owner : {UNDEFINED, "u1"}, photo_url : {UNDEFINED}]

LifecycleUpdateComplaintInputs ==
  [id : {"c1"}, status : {"URGENT", "RESOLVED"}, description : {UNDEFINED}]

InitLifecycle ==
  /\ \E arch \in BOOLEAN :
       assets = [id \in {"a1", "a2"} |->
          IF id = "a1"
          THEN [NewAssetRow("a1", BaseAssetInput("n1", "UNDER_REPAIR"), 0) EXCEPT !.is_archived = arch]
          ELSE NewAssetRow("a2", BaseAssetInput("n2", "NEW"), 0)]
  /\ users = [id \in {"u1", "u2"} |->
        IF id = "u1" THEN SeedUserNamed("u1", "e1")
        ELSE [SeedUserNamed("u2", "e2") EXCEPT !.is_active = FALSE]]
  /\ complaints = [id \in {"c1"} |-> SeedComplaint("c1", "a1", "NEEDS_REPAIR")]
  /\ maintenance = <<>>
  /\ history = <<>>
  /\ logs = <<CreateUserLog(SeedUserNamed("u1", "e1")), CreateUserLog(SeedUserNamed("u2", "e2")),
              DeactivationLog(SeedUserNamed("u2", "e2"))>>
  /\ InitProcs

NextLifecycle ==
  \/ CallCreateAsset("p1", CreateAssetInputs)
  \/ CreateAssetStep("p1")
  \/ CallUpdateAsset("p1", LifecycleUpdateAssetInputs)
  \/ UpdateAssetStep("p1")
  \/ CallDeleteAsset("p1", AssetIdInputs, PermanentInputs)
  \/ DeleteAssetStep("p1")
  \/ CallRestoreAsset("p1", AssetIdInputs)
  \/ RestoreAssetStep("p1")
  \/ CallUpdateComplaint("p1", LifecycleUpdateComplaintInputs)
  \/ UpdateComplaintStep("p1")
  \/ CallDeleteUser("p1", {"u1"})
  \/ DeleteUserStep("p1")
  \/ Reset("p1")

SpecLifecycle == InitLifecycle /\ [][NextLifecycle]_vars

(***************************************************************************)
(* SpecFaults: one caller, as in SpecLifecycle, against a store whose      *)
(* statements may fail.                                                    *)
(***************************************************************************)
FaultsUpdateComplaintInputs ==
  [id : {"c1"}, status : {UNDEFINED, "URGENT", "RESOLVED"}, description : {UNDEFINED, "t2"}]

NextFaults ==
  \/ CallCreateAsset("p1", CreateAssetInputs)
  \/ CreateAssetStep("p1")
  \/ CA_LogFails("p1")
  \/ CallUpdateAsset("p1", LifecycleUpdateAssetInputs)
  \/ UpdateAssetStep("p1")
  \/ CallRestoreAsset("p1", AssetIdInputs)
  \/ RestoreAssetStep("p1")
  \/ CallUpdateComplaint("p1", FaultsUpdateComplaintInputs)
  \/ UpdateComplaintStep("p1")
  \/ CallCreateUser("p1", CreateUserInputs)
  \/ CreateUserStep("p1")
  \/ CallDeleteUser("p1", {"u1"})
  \/ DeleteUserStep("p1")
  \/ StoreFails("p1")
  \/ Reset("p1")

SpecFaults == InitLifecycle /\ [][NextFaults]_vars

(***************************************************************************)
(* SpecUsers: one caller creating, updating, deactivating and logging in   *)
(* users.  The store is what createUser (three times), updateUser (a       *)
(* password for u1 and u3) and deleteUser (u3) calls leave: u1 active with *)
(* a password set by updateUser, u2 active as createUser stored it, u3     *)
(* deactivated.                                                            *)
(***************************************************************************)
PasswordUpdateLog(user) ==
  LogRow(user.id, "UPDATE", "USER", user.id, <<<<"password updated">>>>, 0)

SeedUsers ==
  [id \in {"u1", "u2", "u3"} |->
     CASE id = "u1" -> [SeedUserNamed("u1", "e1") EXCEPT !.password_hash = BunPasswordHash("pw1")]
       [] id = "u2" -> SeedUserNamed("u2", "e2")
       [] id = "u3" -> [SeedUserNamed("u3", "e3") EXCEPT !.password_hash = BunPasswordHash("pw1"),
                                                         !.is_active = FALSE]]

UserIdInputs == {"u1", "u2", "u3", MissingId}

UpdateUserInputs ==
  [id : {"u1", "u3", MissingId},
   email : {<<>>, <<"e2">>, <<"e9">>},
   password : {<<>>, <<"pw2">>},
   role : {<<>>, <<"ADMIN">>},
   full_name : {<<>>},
   is_active : {<<>>, <<TRUE>>, <<FALSE>>}]

LoginInputs ==
  [email : {"e1", "e2", "e3", "e9"}, password : {"pw1", "pw2", ""}]

InitUsers ==
  /\ assets = <<>>
  /\ users = SeedUsers
  /\ complaints = <<>>
  /\ maintenance = <<>>
  /\ history = <<>>
  /\ logs = <<CreateUserLog(SeedUsers["u1"]), CreateUserLog(SeedUsers["u2"]),
              CreateUserLog(SeedUsers["u3"]), PasswordUpdateLog(SeedUsers["u1"]),
              PasswordUpdateLog(SeedUsers["u3"]), DeactivationLog(SeedUsers["u3"])>>
  /\ InitProcs

NextUsers ==
  \/ CallCreateUser("p1", CreateUserInputs)
  \/ CreateUserStep("p1")
  \/ CallUpdateUser("p1", UpdateUserInputs)
  \/ UpdateUserStep("p1")
  \/ CallDeleteUser("p1", UserIdInputs)
  \/ DeleteUserStep("p1")
  \/ CallLoginUser("p1", LoginInputs)
  \/ LoginUserStep("p1")
  \/ Reset("p1")

SpecUsers == InitUsers /\ [][NextUsers]_vars

(***************************************************************************)
(* SpecQueries: one caller listing assets and reading the dashboard while  *)
(* it also creates, archives and deletes assets.  The store is empty or    *)
(* holds what createUser, createAsset (four times), deleteAsset,           *)
(* createComplaint (twice), updateComplaint and createMaintenance calls    *)
(* leave.                                                                  *)
(***************************************************************************)
QueryAssetInput(name, description, category, condition, owner) ==
  [name |-> name, description |-> description, category |-> category,
   condition |-> condition, owner |-> owner, photo_url |-> NULL]

QueryAssets(archived) ==
  [id \in {"a1", "a2", "a3", "a4"} |->
     [(CASE id = "a1" -> NewAssetRow(id, QueryAssetInput("ab", NULL, "MONITOR", "GOOD", NULL), 0)
         [] id = "a2" -> NewAssetRow(id, QueryAssetInput("Ba", "b", "CPU", "GOOD", "u1"), 0)
         [] id = "a3" -> NewAssetRow(id, QueryAssetInput("b", " a", "MONITOR", "NEW", ""), 0)
         [] id = "a4" -> NewAssetRow(id, QueryAssetInput("Ba", NULL, "CPU", "DAMAGED", "null"), 0))
      EXCEPT !.is_archived = (id \in archived)]]

GetAssetsInputs ==
  {<<>>} \cup
  {<<filters>> : filters \in
     [search : {<<>>, <<"">>, <<" ">>, <<"a">>, <<"B">>, <<"_">>, <<"%">>},
      category : {<<>>, <<"">>, <<"CPU">>},
      condition : {<<>>, <<"GOOD">>},
      owner : {<<>>, <<"">>, <<"null">>, <<"u1">>},
      is_archived : {<<>>, <<TRUE>>, <<FALSE>>}]}

QueryCreateAssetInputs ==
  [name : {"a"}, description : {NULL}, category : {"CPU"}, condition : {"NEW", "GOOD"},
   owner : {NULL, "u1"}, photo_url : {NULL}]

InitQueries ==
  /\ \/ /\ assets = <<>>
        /\ users = <<>>
        /\ complaints = <<>>
        /\ maintenance = <<>>
        /\ logs = <<>>
     \/ /\ \E archived \in SUBSET {"a3", "a4"} : assets = QueryAssets(archived)
        /\ users = [id \in {"u1"} |-> SeedUser]
        /\ complaints = [id \in {"c1", "c2"} |->
             IF id = "c1" THEN SeedComplaint("c1", "a1", "NEEDS_REPAIR")
             ELSE SeedComplaint("c2", "a2", "RESOLVED")]
        /\ maintenance = [id \in {"m1"} |-> SeedMaintenance("m1", "a2")]
        /\ logs = <<LogRow("u1", "CREATE_USER", "USER", "u1", <<"User account created", "e1", "ADMIN">>, 0),
                    CreationLogRow([owner |-> "u1"], [id |-> "a2", name |-> "Ba", category |-> "CPU"], 0),
                    SeedMaintenanceLog("m1", "a2")>>
  /\ history = <<>>
  /\ InitProcs

NextQueries ==
  \/ CallGetAssets("p1", GetAssetsInputs)
  \/ GA_Query("p1")
  \/ CallGetDashboardStats("p1")
  \/ GetDashboardStatsStep("p1")
  \/ CallCreateAsset("p1", QueryCreateAssetInputs)
  \/ CreateAssetStep("p1")
  \/ CallDeleteAsset("p1", {"a1", "a3"}, PermanentInputs)
  \/ DeleteAssetStep("p1")
  \/ Reset("p1")

SpecQueries == InitQueries /\ [][NextQueries]_vars

(***************************************************************************)
(* SpecUpdateRace: two callers updating the same asset; their statements   *)
(* interleave.                                                             *)
(***************************************************************************)
RaceUpdateAssetInputs ==
  [id : {"a1"}, name : {UNDEFINED, "n1", "n2", "n3"}, description : {UNDEFINED},
   category : {UNDEFINED}, condition : {UNDEFINED, "GOOD", "DAMAGED"}, owner : {UNDEFINED, NULL},
   photo_url : {UNDEFINED}]

InitUpdateRace ==
  /\ assets = [id \in {"a1"} |->
        NewAssetRow("a1", [BaseAssetInput("n1", "GOOD") EXCEPT !.owner = "u1"], 0)]
  /\ users = [id \in {"u1"} |-> SeedUser]
  /\ complaints = <<>>
  /\ maintenance = <<>>
  /\ history = <<>>
  /\ logs = <<CreateUserLog(SeedUser)>>
  /\ InitProcs

NextUpdateRace ==
  \/ \E p \in Procs : CallUpdateAsset(p, RaceUpdateAssetInputs)
  \/ \E p \in Procs : UpdateAssetStep(p)
  \/ \E p \in Procs : Reset(p)

SpecUpdateRace == InitUpdateRace /\ [][NextUpdateRace]_vars

(***************************************************************************)
(* SpecRestoreRace: two callers restoring assets; their statements         *)
(* interleave.  The store is what createUser, createAsset (twice) and      *)
(* deleteAsset calls leave, with or without the system user row an earlier *)
(* restoreAsset inserted; no user holds the system email otherwise.        *)
(***************************************************************************)
InitRestoreRace ==
  /\ \E archived \in {{"a1", "a2"}, {"a1"}} :
       assets = [id \in {"a1", "a2"} |->
          [NewAssetRow(id, BaseAssetInput("n1", "GOOD"), 0) EXCEPT !.is_archived = (id \in archived)]]
  /\ \E materialised \in BOOLEAN :
       /\ users = [id \in {"u1"} \cup (IF materialised THEN {systemUserId} ELSE {}) |->
                     IF id = "u1" THEN SeedUser ELSE SystemUserRow(0)]
       /\ logs = <<CreateUserLog(SeedUser)>>
                  \o (IF materialised
                      THEN <<LogRow(systemUserId, "RESTORE_ASSET", "ASSET", "a2",
                                    <<"Asset restored from archive", "n1">>, 0)>>
                      ELSE <<>>)
  /\ complaints = <<>>
  /\ maintenance = <<>>
  /\ history = <<>>
  /\ InitProcs

NextRestoreRace ==
  \/ CallRestoreAsset("p1", {"a1", MissingId})
  \/ CallRestoreAsset("p2", {"a2", MissingId})
  \/ \E p \in Procs : RestoreAssetStep(p)
  \/ \E p \in Procs : Reset(p)

SpecRestoreRace == InitRestoreRace /\ [][NextRestoreRace]_vars

(***************************************************************************)
(* SpecHealRace: a caller resolving a complaint of asset a1 while another  *)
(* updates complaints, updates the asset or files a complaint; their       *)
(* statements interleave.  The store is what createAsset, updateAsset and  *)
(* createComplaint (twice) and possibly updateComplaint calls leave: a1    *)
(* under repair with c1 unresolved and c2 unresolved or resolved.          *)
(***************************************************************************)
ResolveInputs(ids) == [id : ids, status : {"RESOLVED"}, description : {UNDEFINED}]

HealRaceUpdateAssetInputs ==
  [id : {"a1"}, name : {UNDEFINED}, description : {UNDEFINED}, category : {UNDEFINED},
   condition : {"GOOD", "DAMAGED", "UNDER_REPAIR"}, owner : {UNDEFINED}, photo_url : {UNDEFINED}]

HealRaceCreateComplaintInputs ==
  [asset_id : {"a1"}, complainant_name : {"w2"}, status : {"NEEDS_REPAIR"}, description : {"t3"}]

InitHealRace ==
  /\ assets = [id \in {"a1"} |-> NewAssetRow("a1", BaseAssetInput("n1", "UNDER_REPAIR"), 0)]
  /\ \E s2 \in {"URGENT", "RESOLVED"} :
       complaints = [id \in {"c1", "c2"} |->
          IF id = "c1" THEN SeedComplaint("c1", "a1", "NEEDS_REPAIR")
          ELSE SeedComplaint("c2", "a1", s2)]
  /\ users = <<>>
  /\ maintenance = <<>>
  /\ history = <<>>
  /\ logs = <<>>
  /\ InitProcs

NextHealRace ==
  \/ CallUpdateComplaint("p1", ResolveInputs({"c1"}))
  \/ CallUpdateComplaint("p2", ResolveInputs({"c1", "c2"}))
  \/ CallUpdateAsset("p2", HealRaceUpdateAssetInputs)
  \/ CallCreateComplaint("p2", HealRaceCreateComplaintInputs)
  \/ \E p \in Procs : UpdateComplaintStep(p)
  \/ UpdateAssetStep("p2")
  \/ CreateComplaintStep("p2")
  \/ \E p \in Procs : Reset(p)

SpecHealRace == InitHealRace /\ [][NextHealRace]_vars

(***************************************************************************)
(* SpecLedger: one caller updating assets, updating complaints, creating   *)
(* assets and deleting them, one call after another.  The store is what    *)
(* createUser, createAsset (twice) and createComplaint calls leave: a1 in  *)
(* good condition or under repair with an unresolved complaint, a2 new.    *)
(***************************************************************************)
LedgerUpdateAssetInputs ==
  [id : {"a1", "a2"}, name : {UNDEFINED, "n2", "n3"}, description : {UNDEFINED},
   category : {UNDEFINED}, condition : {UNDEFINED, "GOOD", "UNDER_REPAIR"},
   owner : {UNDEFINED, NULL, "u1"}, photo_url : {UNDEFINED}]

InitLedger ==
  /\ \E cond \in {"GOOD", "UNDER_REPAIR"}, o \in {NULL, "u1"} :
       assets = [id \in {"a1", "a2"} |->
          IF id = "a1" THEN NewAssetRow("a1", [BaseAssetInput("n1", cond) EXCEPT !.owner = o], 0)
          ELSE NewAssetRow("a2", BaseAssetInput("n2", "NEW"), 0)]
  /\ users = [id \in {"u1"} |-> SeedUser]
  /\ complaints = [id \in {"c1"} |-> SeedComplaint("c1", "a1", "NEEDS_REPAIR")]
  /\ maintenance = <<>>
  /\ history = <<>>
  /\ logs = <<CreateUserLog(SeedUser)>>
  /\ InitProcs

NextLedger ==
  \/ CallUpdateAsset("p1", LedgerUpdateAssetInputs)
  \/ UpdateAssetStep("p1")
  \/ CallUpdateComplaint("p1", LifecycleUpdateComplaintInputs)
  \/ UpdateComplaintStep("p1")
  \/ CallCreateAsset("p1", QueryCreateAssetInputs)
  \/ CreateAssetStep("p1")
  \/ CallDeleteAsset("p1", {"a1"}, PermanentInputs)
  \/ DeleteAssetStep("p1")
  \/ Reset("p1")

SpecLedger == InitLedger /\ [][NextLedger]_vars

(***************************************************************************)
(* Claims about updateAsset (SpecAsset: calls do not interleave).          *)
(***************************************************************************)
\* The call p has finished was updateAsset on an asset that existed.
UpdatedExisting(p) ==
  /\ pc[p] = "done"
  /\ call[p].op = "updateAsset"
  /\ call[p].input.id \in DOMAIN pre[p].assets

ProvidedFields(input) == {f \in Range(AssetFields) : input[f] # UNDEFINED}

DifferingFields(input, stored) == {f \in ProvidedFields(input) : input[f] # stored[f]}

\* The ledger rows appended since the call of p started.
Appended(p) == SubSeq(history, Len(pre[p].history) + 1, Len(history))

LedgerExtended(p) ==
  /\ Len(history) >= Len(pre[p].history)
  /\ SubSeq(history, 1, Len(pre[p].history)) = pre[p].history

\* C1: updateAsset on an existing asset whose provided fields all equal the
\* stored values (or which provides none) writes nothing: the whole asset
\* table, updated_at included, and the ledger are as before the call, and
\* the stored row is returned.
C1_NoChangeUpdateWritesNothing ==
  \A p \in Procs :
    (UpdatedExisting(p) /\ DifferingFields(call[p].input, pre[p].assets[call[p].input.id]) = {}) =>
      /\ assets = pre[p].assets
      /\ history = pre[p].history
      /\ ret[p] = [status |-> "ok", value |-> pre[p].assets[call[p].input.id]]

\* A finished no-change update that did provide fields.
C1_Witness ==
  \E p \in Procs :
    /\ UpdatedExisting(p)
    /\ Cardinality(ProvidedFields(call[p].input)) >= 2
    /\ DifferingFields(call[p].input, pre[p].assets[call[p].input.id]) = {}

\* C2: updateAsset on an existing asset appends exactly one ledger row per
\* provided field that differs from the stored value (null included) and no
\* other row; each row carries the asset id, the value stored before the
\* call, the input value and changed_by = null; afterwards the asset row
\* holds the input value of every changed field and the old value of every
\* other column (updated_at aside), and no other asset row changed.
C2_OneLedgerRowPerChangedField ==
  \A p \in Procs :
    UpdatedExisting(p) =>
      LET input == call[p].input
          id == input.id
          stored == pre[p].assets[id]
          diff == DifferingFields(input, stored)
          added == Appended(p)
      IN /\ ret[p].status = "ok"
         /\ LedgerExtended(p)
         /\ Len(added) = Cardinality(diff)
         /\ \A i \in 1..Len(added) :
              /\ added[i].field_name \in diff
              /\ added[i].asset_id = id
              /\ added[i].old_value = stored[added[i].field_name]
              /\ added[i].new_value = input[added[i].field_name]
              /\ added[i].changed_by = NULL
         /\ \A f \in diff : \E i \in 1..Len(added) : added[i].field_name = f
         /\ DOMAIN assets = DOMAIN pre[p].assets
         /\ \A k \in DOMAIN stored \ {"updated_at"} :
              assets[id][k] = IF k \in diff THEN input[k] ELSE stored[k]
         /\ \A a \in DOMAIN assets \ {id} : assets[a] = pre[p].assets[a]

\* A finished update that changed a field to null, one from null and the name.
C2_Witness ==
  \E p \in Procs :
    /\ UpdatedExisting(p)
    /\ LET input == call[p].input
           stored == pre[p].assets[input.id]
           diff == DifferingFields(input, stored)
       IN /\ "name" \in diff
          /\ \E f \in diff : input[f] = NULL
          /\ \E f \in diff : stored[f] = NULL
          /\ Len(Appended(p)) >= 3

(***************************************************************************)
(* Claims about updateComplaint (SpecComplaint: calls do not interleave).  *)
(***************************************************************************)
\* The call p has finished was updateComplaint, with status RESOLVED, on a
\* complaint that existed.
ResolvedExisting(p) ==
  /\ pc[p] = "done"
  /\ call[p].op = "updateComplaint"
  /\ call[p].input.id \in DOMAIN pre[p].complaints
  /\ call[p].input.status = "RESOLVED"

\* The asset of the complaint p updated, and the complaint's status, before the call.
AssetOf(p) == pre[p].complaints[call[p].input.id].asset_id
StatusBefore(p) == pre[p].complaints[call[p].input.id].status

\* Before the call another complaint of the same asset was not RESOLVED.
OtherUnresolvedBefore(p) ==
  \E c \in DOMAIN pre[p].complaints \ {call[p].input.id} :
    /\ pre[p].complaints[c].asset_id = AssetOf(p)
    /\ pre[p].complaints[c].status # "RESOLVED"

IsLedgerRow(r, asset_id, field_name, old_value, new_value) ==
  /\ r.asset_id = asset_id
  /\ r.field_name = field_name
  /\ r.old_value = old_value
  /\ r.new_value = new_value
  /\ r.changed_by = NULL

\* C3: when updateComplaint moves a complaint from a non-RESOLVED status to
\* RESOLVED, no other complaint of the asset is unresolved and the asset is
\* UNDER_REPAIR, the asset's condition is GOOD afterwards and exactly two
\* ledger rows were appended for the asset: complaint_status (old status to
\* RESOLVED) and condition (UNDER_REPAIR to GOOD).
C3_LastResolutionHealsAsset ==
  \A p \in Procs :
    (/\ ResolvedExisting(p)
     /\ StatusBefore(p) # "RESOLVED"
     /\ ~OtherUnresolvedBefore(p)
     /\ pre[p].assets[AssetOf(p)].condition = "UNDER_REPAIR") =>
      /\ ret[p].status = "ok"
      /\ assets[AssetOf(p)].condition = "GOOD"
      /\ LedgerExtended(p)
      /\ Len(Appended(p)) = 2
      /\ \E i, j \in 1..2 :
           /\ i # j
           /\ IsLedgerRow(Appended(p)[i], AssetOf(p), "complaint_status", StatusBefore(p), "RESOLVED")
           /\ IsLedgerRow(Appended(p)[j], AssetOf(p), "condition", "UNDER_REPAIR", "GOOD")

\* A finished resolution of the last unresolved complaint of an asset under
\* repair that has another, resolved, complaint.
C3_Witness ==
  \E p \in Procs :
    /\ ResolvedExisting(p)
    /\ StatusBefore(p) # "RESOLVED"
    /\ ~OtherUnresolvedBefore(p)
    /\ pre[p].assets[AssetOf(p)].condition = "UNDER_REPAIR"
    /\ \E c \in DOMAIN pre[p].complaints \ {call[p].input.id} :
         pre[p].complaints[c].asset_id = AssetOf(p)

\* C4: when updateComplaint changes a status to RESOLVED and the asset's
\* condition is NEW, GOOD or DAMAGED, no asset row changes and only the
\* complaint_status row is appended, whatever the other complaints are.
C4_NoHealUnlessUnderRepair ==
  \A p \in Procs :
    (/\ ResolvedExisting(p)
     /\ StatusBefore(p) # "RESOLVED"
     /\ pre[p].assets[AssetOf(p)].condition \in {"NEW", "GOOD", "DAMAGED"}) =>
      /\ ret[p].status = "ok"
      /\ assets = pre[p].assets
      /\ LedgerExtended(p)
      /\ Len(Appended(p)) = 1
      /\ IsLedgerRow(Appended(p)[1], AssetOf(p), "complaint_status", StatusBefore(p), "RESOLVED")

\* A finished resolution of the last unresolved complaint of a DAMAGED asset.
C4_Witness ==
  \E p \in Procs :
    /\ ResolvedExisting(p)
    /\ StatusBefore(p) # "RESOLVED"
    /\ ~OtherUnresolvedBefore(p)
    /\ pre[p].assets[AssetOf(p)].condition = "DAMAGED"

\* C5: when updateComplaint resolves a complaint while another complaint of
\* the same asset is not RESOLVED, the asset's condition is not changed and
\* no condition row is appended.
C5_NoHealWhileOthersUnresolved ==
  \A p \in Procs :
    (ResolvedExisting(p) /\ OtherUnresolvedBefore(p)) =>
      /\ assets[AssetOf(p)].condition = pre[p].assets[AssetOf(p)].condition
      /\ LedgerExtended(p)
      /\ \A i \in 1..Len(Appended(p)) : Appended(p)[i].field_name # "condition"

\* A finished resolution on an asset under repair with another unresolved complaint.
C5_Witness ==
  \E p \in Procs :
    /\ ResolvedExisting(p)
    /\ StatusBefore(p) # "RESOLVED"
    /\ OtherUnresolvedBefore(p)
    /\ pre[p].assets[AssetOf(p)].condition = "UNDER_REPAIR"

(***************************************************************************)
(* Claims about restoreAsset and deleteAsset (SpecArchive: calls do not    *)
(* interleave).                                                            *)
(***************************************************************************)
StoreUnchangedSince(p) ==
  /\ assets = pre[p].assets
  /\ users = pre[p].users
  /\ complaints = pre[p].complaints
  /\ maintenance = pre[p].maintenance
  /\ history = pre[p].history
  /\ logs = pre[p].logs

\* The call p has finished was restoreAsset on an asset that existed, archived.
RestoredArchived(p) ==
  /\ pc[p] = "done"
  /\ call[p].op = "restoreAsset"
  /\ call[p].id \in DOMAIN pre[p].assets
  /\ pre[p].assets[call[p].id].is_archived

\* C6: whatever user rows exist, restoreAsset on an existing archived asset
\* succeeds, clears is_archived and appends exactly one activity-log row
\* (RESTORE_ASSET, entity_id = the asset, user_id = 'system'), the system
\* user row existing afterwards.
C6_RestoreAlwaysSucceedsAndLogs ==
  \A p \in Procs :
    RestoredArchived(p) =>
      /\ ret[p].status = "ok"
      /\ assets[call[p].id].is_archived = FALSE
      /\ systemUserId \in DOMAIN users
      /\ Len(logs) = Len(pre[p].logs) + 1
      /\ SubSeq(logs, 1, Len(pre[p].logs)) = pre[p].logs
      /\ logs[Len(logs)].action = "RESTORE_ASSET"
      /\ logs[Len(logs)].entity_id = call[p].id
      /\ logs[Len(logs)].user_id = systemUserId

\* C7: restoreAsset fails with not-found when no asset has the id and with
\* 'is not archived' when the asset exists with is_archived = false; in both
\* cases no row of any table is created or changed.
C7_RestoreRejections ==
  \A p \in Procs :
    (pc[p] = "done" /\ call[p].op = "restoreAsset") =>
      /\ call[p].id \notin DOMAIN pre[p].assets =>
           ret[p] = [status |-> "error", error |-> "NotFound"] /\ StoreUnchangedSince(p)
      /\ (call[p].id \in DOMAIN pre[p].assets /\ ~pre[p].assets[call[p].id].is_archived) =>
           ret[p] = [status |-> "error", error |-> "NotArchived"] /\ StoreUnchangedSince(p)

\* A finished restoreAsset on an asset that exists and is not archived.
C7_Witness ==
  \E p \in Procs :
    /\ pc[p] = "done"
    /\ call[p].op = "restoreAsset"
    /\ call[p].id \in DOMAIN pre[p].assets
    /\ ~pre[p].assets[call[p].id].is_archived

\* The call p has finished was deleteAsset.
Deleted(p) == pc[p] = "done" /\ call[p].op = "deleteAsset"

\* The rows of a store that belong to other assets than id.
OthersIn(db, id) ==
  [assets |-> [a \in DOMAIN db.assets \ {id} |-> db.assets[a]],
   complaints |-> [c \in {d \in DOMAIN db.complaints : db.complaints[d].asset_id # id} |->
                     db.complaints[c]],
   maintenance |-> [m \in {d \in DOMAIN db.maintenance : db.maintenance[d].asset_id # id} |->
                      db.maintenance[m]],
   history |-> SelectSeq(db.history, LAMBDA r : r.asset_id # id)]

\* C8: after deleteAsset(id, true) has returned success = true there is no
\* asset row with that id and no complaint, ledger or schedule row with
\* asset_id = id, and the rows of every other asset are as before the call.
C8_HardDeleteRemovesAssetAndDependents ==
  \A p \in Procs :
    (Deleted(p) /\ call[p].optional = <<TRUE>> /\ ret[p] = [status |-> "ok", value |-> [success |-> TRUE]]) =>
      /\ call[p].id \notin DOMAIN assets
      /\ \A c \in DOMAIN complaints : complaints[c].asset_id # call[p].id
      /\ \A i \in 1..Len(history) : history[i].asset_id # call[p].id
      /\ \A m \in DOMAIN maintenance : maintenance[m].asset_id # call[p].id
      /\ OthersIn(Snapshot, call[p].id) = OthersIn(pre[p], call[p].id)

\* A finished successful hard delete of an asset that had a complaint, a
\* ledger row and a schedule, another asset having rows of its own.
C8_Witness ==
  \E p \in Procs :
    /\ Deleted(p)
    /\ call[p].optional = <<TRUE>>
    /\ ret[p] = [status |-> "ok", value |-> [success |-> TRUE]]
    /\ \E c \in DOMAIN pre[p].complaints : pre[p].complaints[c].asset_id = call[p].id
    /\ \E i \in 1..Len(pre[p].history) : pre[p].history[i].asset_id = call[p].id
    /\ \E m \in DOMAIN pre[p].maintenance : pre[p].maintenance[m].asset_id = call[p].id
    /\ Len(history) > 0
    /\ DOMAIN complaints # {}

\* C10: deleteAsset on an id that no asset row has returns {success: false},
\* raises nothing and changes no table, with or without the permanent flag.
C10_DeleteMissingAsset ==
  \A p \in Procs :
    (Deleted(p) /\ call[p].id \notin DOMAIN pre[p].assets) =>
      /\ ret[p] = [status |-> "ok", value |-> [success |-> FALSE]]
      /\ StoreUnchangedSince(p)

\* A finished permanent deleteAsset on a missing id.
C10_Witness ==
  \E p \in Procs :
    /\ Deleted(p)
    /\ call[p].id \notin DOMAIN pre[p].assets
    /\ call[p].optional = <<TRUE>>

(***************************************************************************)
(* Claims about deleteAsset under interleaving (SpecDeleteRace).           *)
(***************************************************************************)
\* Every complaint, ledger row and schedule the asset had when the call of p
\* started is still in the store.
DependentsKept(p) ==
  /\ \A c \in DOMAIN pre[p].complaints :
       pre[p].complaints[c].asset_id = call[p].id => c \in DOMAIN complaints
  /\ \A i \in 1..Len(pre[p].history) :
       pre[p].history[i].asset_id = call[p].id =>
         \E j \in 1..Len(history) : history[j] = pre[p].history[i]
  /\ \A m \in DOMAIN pre[p].maintenance :
       pre[p].maintenance[m].asset_id = call[p].id => m \in DOMAIN maintenance

\* C9: the hard path of deleteAsset is one atomic unit: once a hard delete
\* has ended, in success or in error, and whatever ran beside it, the asset
\* row does not remain with some of the rows it had already deleted.
C9_HardDeleteAllOrNothing ==
  \A p \in Procs :
    (Deleted(p) /\ Permanent(call[p]) /\ call[p].id \in DOMAIN assets) => DependentsKept(p)


(***************************************************************************)
(* More claims about updateComplaint (SpecComplaint).                      *)
(***************************************************************************)
\* The call p has finished was updateComplaint on a complaint that existed.
UpdatedExistingComplaint(p) ==
  /\ pc[p] = "done"
  /\ call[p].op = "updateComplaint"
  /\ call[p].input.id \in DOMAIN pre[p].complaints

StatusRows(rows) == {i \in 1..Len(rows) : rows[i].field_name = "complaint_status"}

\* C11: updateComplaint appends exactly one complaint_status ledger row
\* (asset_id the complaint's asset, old_value the stored status, new_value
\* the input status, changed_by null) when the input status is present and
\* differs from the stored one, and appends no ledger row at all when the
\* status is absent or equal to the stored one.
C11_StatusChangeLedgerRow ==
  \A p \in Procs :
    UpdatedExistingComplaint(p) =>
      /\ ret[p].status = "ok"
      /\ LedgerExtended(p)
      /\ IF call[p].input.status # UNDEFINED /\ call[p].input.status # StatusBefore(p)
         THEN /\ Cardinality(StatusRows(Appended(p))) = 1
              /\ \A i \in StatusRows(Appended(p)) :
                   IsLedgerRow(Appended(p)[i], AssetOf(p), "complaint_status",
                               StatusBefore(p), call[p].input.status)
         ELSE Appended(p) = <<>>

\* Both cases have happened: a finished update with the stored status
\* RESOLVED given again on an asset under repair (nothing appended), and a
\* finished update that changed the status.
C11_Witness ==
  \E p \in Procs :
    /\ UpdatedExistingComplaint(p)
    /\ \/ /\ call[p].input.status = "RESOLVED"
          /\ StatusBefore(p) = "RESOLVED"
          /\ ~OtherUnresolvedBefore(p)
          /\ pre[p].assets[AssetOf(p)].condition = "UNDER_REPAIR"
       \/ /\ call[p].input.status = "URGENT"
          /\ StatusBefore(p) = "NEEDS_REPAIR"
          /\ Len(Appended(p)) = 1

(***************************************************************************)
(* Claims about the complaints' reference to assets (SpecDeleteRace: a     *)
(* deleting caller interleaves with a creating one).                       *)
(***************************************************************************)
\* C12: in every reachable state every complaint references an asset that
\* exists; a createComplaint whose asset_id matched no asset has failed with
\* the not-found error and has inserted no complaint.
C12_ComplaintsReferenceAssets ==
  /\ \A c \in DOMAIN complaints : complaints[c].asset_id \in DOMAIN assets
  /\ \A p \in Procs :
       (/\ pc[p] = "done"
        /\ call[p].op = "createComplaint"
        /\ call[p].input.asset_id \notin DOMAIN pre[p].assets) =>
         /\ ret[p] = [status |-> "error", error |-> "NotFound"]
         /\ \A c \in DOMAIN complaints \ DOMAIN pre[p].complaints :
              complaints[c].asset_id # call[p].input.asset_id

\* A createComplaint has finished on asset a1 after a hard delete removed a1.
C12_Witness ==
  \E p \in Procs :
    /\ pc[p] = "done"
    /\ call[p].op = "createComplaint"
    /\ call[p].input.asset_id = "a1"
    /\ "a1" \notin DOMAIN pre[p].assets

(***************************************************************************)
(* Claims about createAsset and the scan-code (SpecLifecycle: calls do not *)
(* interleave).                                                            *)
(***************************************************************************)
ScanCodesDistinctAndDerived ==
  /\ \A a, b \in DOMAIN assets : a # b => assets[a].qr_code # assets[b].qr_code
  /\ \A a \in DOMAIN assets : assets[a].qr_code = <<"QR_", a>>

ScanCodeKept ==
  \A a \in DOMAIN assets \cap DOMAIN assets' : assets'[a].qr_code = assets[a].qr_code

\* C13: in every reachable state the assets' scan-codes are pairwise
\* distinct and each is 'QR_' followed by the asset's id, and no step of
\* any operation changes the scan-code of an asset that exists.
C13_ScanCodesUniqueAndImmutable ==
  []ScanCodesDistinctAndDerived /\ [][ScanCodeKept]_vars

\* createAsset has returned a new asset while a seeded asset has been
\* written by an earlier operation (update, archive, restore or heal).
C13_Witness ==
  \E p \in Procs :
    /\ pc[p] = "done"
    /\ call[p].op = "createAsset"
    /\ ret[p].status = "ok"
    /\ ret[p].value.id \in DOMAIN assets
    /\ "a1" \in DOMAIN assets
    /\ assets["a1"].updated_at > 0

\* createAsset has returned.
CreatedAsset(p) ==
  /\ pc[p] = "done"
  /\ call[p].op = "createAsset"
  /\ ret[p].status = "ok"

LogsAppended(p) == SubSeq(logs, Len(pre[p].logs) + 1, Len(logs))

LogsExtended(p) ==
  /\ Len(logs) >= Len(pre[p].logs)
  /\ SubSeq(logs, 1, Len(pre[p].logs)) = pre[p].logs

IsCreationLog(r, p) ==
  /\ r.action = "CREATE"
  /\ r.entity_type = "ASSET"
  /\ r.entity_id = ret[p].value.id
  /\ r.user_id = call[p].input.owner

CreatedUnarchived(p) ==
  /\ ret[p].value.id \in DOMAIN assets
  /\ ret[p].value.id \notin DOMAIN pre[p].assets
  /\ assets[ret[p].value.id].is_archived = FALSE
  /\ ret[p].value.is_archived = FALSE

OwnerIsUser(p) ==
  /\ Truthy(call[p].input.owner)
  /\ call[p].input.owner \in DOMAIN pre[p].users

\* C14 as stated: createAsset appends exactly one CREATE/ASSET log row by
\* the owner if the owner is the id of an existing active user and appends
\* no log row otherwise (an inactive user included); the asset is created
\* unarchived in every case.
C14_LogsCreationForActiveOwnerOnly ==
  \A p \in Procs :
    CreatedAsset(p) =>
      /\ CreatedUnarchived(p)
      /\ LogsExtended(p)
      /\ IF OwnerIsUser(p) /\ pre[p].users[call[p].input.owner].is_active
         THEN Len(LogsAppended(p)) = 1 /\ IsCreationLog(LogsAppended(p)[1], p)
         ELSE LogsAppended(p) = <<>>

\* C14 amended: createAsset appends exactly one CREATE/ASSET log row by the
\* owner if the owner is the id of an existing user, active or not, and
\* appends no log row otherwise; the asset is created unarchived in every
\* case.
C14_LogsCreationForExistingOwner ==
  \A p \in Procs :
    CreatedAsset(p) =>
      /\ CreatedUnarchived(p)
      /\ LogsExtended(p)
      /\ IF OwnerIsUser(p)
         THEN Len(LogsAppended(p)) = 1 /\ IsCreationLog(LogsAppended(p)[1], p)
         ELSE LogsAppended(p) = <<>>

\* createAsset has returned for an owner that is a deactivated user.
C14_Witness ==
  \E p \in Procs :
    /\ CreatedAsset(p)
    /\ OwnerIsUser(p)
    /\ ~pre[p].users[call[p].input.owner].is_active

(***************************************************************************)
(* Claims about failing statements (SpecFaults).                           *)
(***************************************************************************)
\* The call of p has finished after one of its statements failed.
FailedAt(p) == IF pc[p] = "done" /\ loc[p] # NoLocals THEN loc[p].failed ELSE "none"

\* C15: when the user lookup or the activity-log insert of createAsset
\* fails, createAsset returns the created asset without an error, the asset
\* row is stored and no log row is written; a failed statement of any other
\* handler, or another statement of createAsset, ends the call in an error.
C15_LoggingFailureSwallowed ==
  \A p \in Procs :
    /\ (FailedAt(p) \in {"ca_select_user", "ca_log"}) =>
         /\ call[p].op = "createAsset"
         /\ ret[p].status = "ok"
         /\ ret[p].value.id \notin DOMAIN pre[p].assets
         /\ ret[p].value.id \in DOMAIN assets
         /\ assets[ret[p].value.id] = ret[p].value
         /\ logs = pre[p].logs
    /\ (FailedAt(p) \notin {"none", "ca_select_user", "ca_log"}) => ret[p].status = "error"

\* createAsset has finished after its log insert failed, for an owner that is a user.
C15_Witness ==
  \E p \in Procs :
    /\ FailedAt(p) = "ca_log"
    /\ call[p].input.owner \in DOMAIN users

ComplaintStepsAfterUpdate == {"uc_history", "uc_others", "uc_asset", "uc_heal", "uc_heal_history"}

\* C20: when a statement of updateComplaint after the complaint row update
\* fails, the call ends in an error and the complaint row holds the input's
\* status and description where provided (the stored ones otherwise).
C20_ComplaintUpdateSurvivesLaterFailure ==
  \A p \in Procs :
    (FailedAt(p) \in ComplaintStepsAfterUpdate) =>
      /\ call[p].op = "updateComplaint"
      /\ ret[p].status = "error"
      /\ LET id == call[p].input.id IN
         /\ id \in DOMAIN complaints
         /\ \A f \in {"status", "description"} :
              complaints[id][f] = IF call[p].input[f] # UNDEFINED THEN call[p].input[f]
                                  ELSE pre[p].complaints[id][f]
         /\ complaints[id].status # pre[p].complaints[id].status

\* updateComplaint has failed at the asset's condition update, after the
\* complaint row and its ledger row were written.
C20_Witness ==
  \E p \in Procs :
    /\ FailedAt(p) = "uc_heal"
    /\ call[p].input.description # UNDEFINED
    /\ Len(history) = Len(pre[p].history) + 1

(***************************************************************************)
(* Claims about users (SpecUsers: calls do not interleave).                *)
(***************************************************************************)
DeletedUser(p) ==
  /\ pc[p] = "done"
  /\ call[p].op = "deleteUser"

WasActiveUser(p) ==
  /\ call[p].id \in DOMAIN pre[p].users
  /\ pre[p].users[call[p].id].is_active

OthersKept(p) ==
  /\ DOMAIN users = DOMAIN pre[p].users
  /\ \A u \in DOMAIN users \ {call[p].id} : users[u] = pre[p].users[u]
  /\ assets = pre[p].assets
  /\ complaints = pre[p].complaints
  /\ maintenance = pre[p].maintenance
  /\ history = pre[p].history

OneDeactivationLog(p) ==
  /\ LogsExtended(p)
  /\ Len(LogsAppended(p)) = 1
  /\ LogsAppended(p)[1].action = "USER_DEACTIVATED"
  /\ LogsAppended(p)[1].user_id = call[p].id
  /\ LogsAppended(p)[1].entity_id = call[p].id

DeleteUserRejected(p) ==
  /\ ret[p].status = "error"
  /\ users = pre[p].users
  /\ logs = pre[p].logs

\* C18 as stated: deleteUser on an existing active user sets is_active to
\* false and leaves every other field of that user, and all other users,
\* unchanged, removes no row and appends exactly one USER_DEACTIVATED log
\* row; on a missing id or an inactive user it fails, changes no user row
\* and appends no log row.
C18_DeactivationChangesOnlyActiveFlag ==
  \A p \in Procs :
    DeletedUser(p) =>
      IF WasActiveUser(p)
      THEN /\ ret[p] = [status |-> "ok", value |-> [success |-> TRUE]]
           /\ OthersKept(p)
           /\ users[call[p].id] = [pre[p].users[call[p].id] EXCEPT !.is_active = FALSE]
           /\ OneDeactivationLog(p)
      ELSE DeleteUserRejected(p)

\* C18 amended: as stated, except that updated_at of the deactivated user
\* is refreshed to the time of the call.
C18_DeactivationKeepsOtherFields ==
  \A p \in Procs :
    DeletedUser(p) =>
      IF WasActiveUser(p)
      THEN /\ ret[p] = [status |-> "ok", value |-> [success |-> TRUE]]
           /\ OthersKept(p)
           /\ users[call[p].id] = [pre[p].users[call[p].id] EXCEPT !.is_active = FALSE,
                                                                   !.updated_at = clock]
           /\ users[call[p].id].updated_at # pre[p].users[call[p].id].updated_at
           /\ OneDeactivationLog(p)
      ELSE DeleteUserRejected(p)

\* deleteUser has finished on a user that an earlier deleteUser deactivated.
C18_Witness ==
  \E p \in Procs :
    /\ DeletedUser(p)
    /\ call[p].id = "u1"
    /\ ~WasActiveUser(p)

LoggedIn(p) ==
  /\ pc[p] = "done"
  /\ call[p].op = "loginUser"

\* The users that held the login's email when the call started.
Matched(p) == {u \in DOMAIN pre[p].users : pre[p].users[u].email = call[p].input.email}

LoginRefused(p) ==
  \/ Matched(p) = {}
  \/ \E u \in Matched(p) : ~pre[p].users[u].is_active
  \/ \E u \in Matched(p) :
       /\ call[p].input.password # ""
       /\ BunPasswordVerify(call[p].input.password, pre[p].users[u].password_hash) = "false"

LoginOutcomes ==
  \A p \in Procs :
    LoggedIn(p) =>
      /\ LoginRefused(p) => (ret[p] = [status |-> "ok", value |-> NullResult] /\ logs = pre[p].logs)
      /\ (ret[p].status = "ok" /\ ret[p].value # NullResult) =>
           /\ \E u \in Matched(p) : pre[p].users[u].is_active /\ ret[p].value.user.id = u
           /\ LogsExtended(p)
           /\ Len(LogsAppended(p)) = 1
           /\ LogsAppended(p)[1].action = "LOGIN"
           /\ LogsAppended(p)[1].user_id = ret[p].value.user.id
      /\ ret[p].status = "error" => logs = pre[p].logs

\* A step that turns a user's is_active from false to true is a step of
\* updateUser on that user with is_active true in its input.
ReactivatedByUpdateUserOnly ==
  \A u \in DOMAIN users \cap DOMAIN users' :
    (~users[u].is_active /\ users'[u].is_active) =>
      \E p \in Procs :
        /\ call[p].op = "updateUser"
        /\ call[p].input.id = u
        /\ call[p].input.is_active = <<TRUE>>

Listed(p) ==
  /\ pc[p] = "done"
  /\ call[p].op = "getAssets"
  /\ ret[p].status = "ok"

RowsBefore(p) == {pre[p].assets[a] : a \in DOMAIN pre[p].assets}

\* The filters of a call that restrict the result: a search that is not
\* blank, a category or condition that is not empty, an owner, an archived
\* flag.
GivenFilters(filters) ==
  {f \in {"category", "condition"} : filters[f] # <<>> /\ filters[f] # <<"">>}
  \cup {f \in {"owner", "is_archived"} : filters[f] # <<>>}
  \cup {f \in {"search"} : filters[f] \notin {<<>>, <<"">>, <<" ">>}}

\* Row r satisfies the filter f of filters.
Satisfies(r, f, filters) ==
  CASE f = "owner" -> IF filters.owner[1] \in {"", "null"} THEN r.owner = NULL
                      ELSE r.owner = filters.owner[1]
    [] f = "search" -> \/ ILikeContains(r.name, filters.search[1])
                       \/ ILikeContains(r.description, filters.search[1])
    [] OTHER -> r[f] = filters[f][1]

\* C16: getAssets with owner '' and with owner 'null' each return exactly
\* the assets whose stored owner is null (so the same set), without an
\* owner filter no restriction on the owner applies, and with several
\* filters the result is exactly the assets that satisfy every one of them.
C16_OwnerFilterAndConjunction ==
  \A p \in Procs :
    Listed(p) =>
      IF call[p].filters = <<>> THEN ret[p].value = RowsBefore(p)
      ELSE LET filters == call[p].filters[1] IN
           /\ ret[p].value =
                {r \in RowsBefore(p) : \A f \in GivenFilters(filters) : Satisfies(r, f, filters)}
           /\ (GivenFilters(filters) = {"owner"} /\ filters.owner[1] \in {"", "null"}) =>
                ret[p].value = {r \in RowsBefore(p) : r.owner = NULL}
           /\ (GivenFilters(filters) = {}) => ret[p].value = RowsBefore(p)

\* getAssets has returned for owner 'null' and a category on a store that
\* holds assets with owner null, '' and 'null'.
C16_Witness ==
  \E p \in Procs :
    /\ Listed(p)
    /\ call[p].filters # <<>>
    /\ call[p].filters[1].owner = <<"null">>
    /\ call[p].filters[1].category = <<"CPU">>
    /\ {NULL, "", "null"} \subseteq {r.owner : r \in RowsBefore(p)}
    /\ ret[p].value # {}

ReadDashboard(p) ==
  /\ pc[p] = "done"
  /\ call[p].op = "getDashboardStats"
  /\ ret[p].status = "ok"

RECURSIVE SumOver(_, _)
SumOver(counts, keys) ==
  IF keys = {} THEN 0
  ELSE LET k == CHOOSE x \in keys : TRUE IN counts[k] + SumOver(counts, keys \ {k})

CountsLive(counts, column, p) ==
  LET live == {a \in DOMAIN pre[p].assets : ~pre[p].assets[a].is_archived} IN
  /\ DOMAIN counts = {pre[p].assets[a][column] : a \in live}
  /\ \A v \in DOMAIN counts :
       counts[v] = Cardinality({a \in live : pre[p].assets[a][column] = v})
  /\ SumOver(counts, DOMAIN counts) = Cardinality(DOMAIN pre[p].assets) - Cardinality(DOMAIN pre[p].assets \ live)

\* C17: getDashboardStats returns total_assets = the number of asset rows,
\* archived_assets = the number of archived rows, and condition and
\* category maps that count exactly the non-archived assets per value (no
\* key for a value without one), so that each map sums to total_assets
\* minus archived_assets; on an empty store all counts are 0 and both maps
\* are empty.
C17_DashboardCounts ==
  \A p \in Procs :
    ReadDashboard(p) =>
      LET stats == ret[p].value IN
      /\ stats.total_assets = Cardinality(DOMAIN pre[p].assets)
      /\ stats.archived_assets =
           Cardinality({a \in DOMAIN pre[p].assets : pre[p].assets[a].is_archived})
      /\ CountsLive(stats.assets_by_condition, "condition", p)
      /\ CountsLive(stats.assets_by_category, "category", p)
      /\ SumOver(stats.assets_by_condition, DOMAIN stats.assets_by_condition)
           = stats.total_assets - stats.archived_assets
      /\ (pre[p].assets = <<>> /\ pre[p].complaints = <<>> /\ pre[p].maintenance = <<>>
          /\ pre[p].logs = <<>>) =>
           /\ stats.total_assets = 0
           /\ stats.archived_assets = 0
           /\ stats.pending_complaints = 0
           /\ stats.upcoming_maintenance = 0
           /\ stats.recent_activities = 0
           /\ DOMAIN stats.assets_by_condition = {}
           /\ DOMAIN stats.assets_by_category = {}

\* The dashboard has been read on a store with archived and non-archived
\* assets, one of them archived by the preceding call.
C17_Witness ==
  \E p \in Procs :
    /\ ReadDashboard(p)
    /\ ret[p].value.archived_assets >= 2
    /\ ret[p].value.total_assets > ret[p].value.archived_assets
    /\ "a1" \in DOMAIN pre[p].assets
    /\ pre[p].assets["a1"].is_archived

(***************************************************************************)
(* Claims about the ledger as a whole (SpecLifecycle: calls do not         *)
(* interleave).                                                            *)
(***************************************************************************)
\* The ledger rows of asset a, in insertion order.
RowsOf(rows, a) == SelectSeq(rows, LAMBDA r : r.asset_id = a)

IsPrefix(s, t) == Len(s) <= Len(t) /\ SubSeq(t, 1, Len(s)) = s

\* A step keeps every ledger row as it is and appends at the end, or it is
\* the ledger delete of deleteAsset(id, true) and removes exactly the rows
\* of that asset.
LedgerStep ==
  \/ IsPrefix(history, history')
  \/ \E p \in Procs :
       /\ pc[p] = "da_history"
       /\ call[p].op = "deleteAsset"
       /\ Permanent(call[p])
       /\ history' = SelectSeq(history, LAMBDA r : r.asset_id # call[p].id)

\* Since the start of a finished call the rows of every asset that still
\* exists have only been added to.
LedgerRowsOnlyGrow ==
  \A p \in Procs :
    pc[p] = "done" =>
      \A a \in DOMAIN assets \cap DOMAIN pre[p].assets :
        IsPrefix(RowsOf(pre[p].history, a), RowsOf(history, a))

SoftDeletedExisting(p) ==
  /\ Deleted(p)
  /\ ~Permanent(call[p])
  /\ call[p].id \in DOMAIN pre[p].assets

\* C22: the soft path of deleteAsset on an existing asset returns
\* success = true whether or not the asset is archived already, and leaves
\* the row archived with only is_archived and updated_at written (on an
\* archived asset only updated_at changes); restoreAsset on an asset that
\* is not archived fails and changes nothing.
C22_SoftDeleteRepeatsRestoreDoesNot ==
  \A p \in Procs :
    /\ SoftDeletedExisting(p) =>
         /\ ret[p] = [status |-> "ok", value |-> [success |-> TRUE]]
         /\ call[p].id \in DOMAIN assets
         /\ assets[call[p].id] = [pre[p].assets[call[p].id] EXCEPT !.is_archived = TRUE,
                                                                     !.updated_at = clock]
         /\ assets[call[p].id].updated_at # pre[p].assets[call[p].id].updated_at
    /\ (/\ pc[p] = "done"
        /\ call[p].op = "restoreAsset"
        /\ call[p].id \in DOMAIN pre[p].assets
        /\ ~pre[p].assets[call[p].id].is_archived) =>
         /\ ret[p].status = "error"
         /\ StoreUnchangedSince(p)

\* A soft delete has finished on an asset that the preceding call had
\* archived by a soft delete.
C22_Witness ==
  \E p \in Procs :
    /\ pc[p] = "done"
    /\ call[p].op = "deleteAsset"
    /\ ~Permanent(call[p])
    /\ call[p].id \in DOMAIN pre[p].assets
    /\ pre[p].assets[call[p].id].is_archived
    /\ pre[p].assets[call[p].id].updated_at > 0
    /\ ret[p].status = "ok"

(***************************************************************************)
(* Claims about concurrent updateAsset calls (SpecUpdateRace).             *)
(***************************************************************************)
\* Both callers have finished an updateAsset on asset a.
BothUpdated(a) ==
  \A p \in Procs :
    /\ pc[p] = "done"
    /\ call[p].op = "updateAsset"
    /\ call[p].input.id = a
    /\ a \in DOMAIN pre[p].assets

\* The fields both calls changed whenever each read the asset: both provide
\* the field, with different values, and neither value was stored when
\* either call started.
ChangedByBoth(a) ==
  {f \in Range(AssetFields) :
     /\ \A p \in Procs : call[p].input[f] # UNDEFINED
     /\ \A p, q \in Procs : call[p].input[f] # pre[q].assets[a][f]
     /\ \A p, q \in Procs : p # q => call[p].input[f] # call[q].input[f]}

\* C23: when two updateAsset calls on the same asset have both finished,
\* in whatever order their statements ran, both have returned a row without
\* an error; the stored row is the row one of them got back from its update
\* statement, and for a field both changed each call got back its own
\* value, so the stored value is the one of the update that ran last.
C23_LastUpdateWins ==
  \A a \in DOMAIN assets :
    BothUpdated(a) =>
      /\ \A p \in Procs : ret[p].status = "ok"
      /\ \E p \in Procs : assets[a] = ret[p].value
      /\ \A f \in ChangedByBoth(a) :
           /\ \A p \in Procs : ret[p].value[f] = call[p].input[f]
           /\ \E p \in Procs : assets[a][f] = call[p].input[f]

\* Both calls have finished after each read the name before the other wrote
\* it: the ledger holds two name rows with the same old value and different
\* new values.
C23_Witness ==
  /\ BothUpdated("a1")
  /\ "name" \in ChangedByBoth("a1")
  /\ \E i, j \in 1..Len(history) :
       /\ i # j
       /\ history[i].field_name = "name"
       /\ history[j].field_name = "name"
       /\ history[i].old_value = history[j].old_value
       /\ history[i].new_value # history[j].new_value

(***************************************************************************)
(* Claims about concurrent restoreAsset calls (SpecRestoreRace).           *)
(***************************************************************************)
\* C24: under any interleaving of restoreAsset calls at most one user row
\* has the id 'system', and every finished call on an asset that was
\* archived has returned the asset without an error, the system user
\* existing and the call's RESTORE_ASSET log row written.
C24_EnsureSystemUserIdempotent ==
  /\ Cardinality({u \in DOMAIN users : users[u].id = systemUserId}) <= 1
  /\ \A p \in Procs :
       RestoredArchived(p) =>
         /\ ret[p].status = "ok"
         /\ systemUserId \in DOMAIN users
         /\ \E i \in Len(pre[p].logs) + 1 .. Len(logs) :
              /\ logs[i].action = "RESTORE_ASSET"
              /\ logs[i].entity_id = call[p].id
              /\ logs[i].user_id = systemUserId

(***************************************************************************)
(* Claims about the auto-heal under interleaving (SpecHealRace).           *)
(***************************************************************************)
\* A step that is the auto-heal update of some call overwrites a condition
\* that is UNDER_REPAIR at that moment, so that the condition row the call
\* appends next records a change that took place.
HealOverwritesUnderRepair ==
  \A p \in Procs :
    (pc[p] = "uc_heal" /\ pc'[p] = "uc_heal_history") =>
      LET id == loc[p].complaint.asset_id IN
      /\ id \in DOMAIN assets
      /\ assets[id].condition = "UNDER_REPAIR"
      /\ assets'[id].condition = "GOOD"

\* C25: under any interleaving of updateComplaint, updateAsset and
\* createComplaint calls, the auto-heal update overwrites the asset's
\* condition only when it is UNDER_REPAIR at the moment of the write, so
\* that every condition row (UNDER_REPAIR to GOOD) stands for one change of
\* the stored condition from UNDER_REPAIR to GOOD.
C25_HealOnlyOverUnderRepair ==
  [][HealOverwritesUnderRepair]_vars

\* Both callers have finished updateComplaint calls with status RESOLVED on
\* complaints of asset a, which was under repair; every complaint of a that
\* was unresolved is the complaint of one of the calls, and each call's
\* complaint was unresolved.  No other call has run: the clock counts the
\* calls started.
AllResolvedConcurrently(a) ==
  /\ clock = Cardinality(Procs)
  /\ \A p \in Procs : pc[p] = "done" /\ call[p].op = "updateComplaint"
  /\ \A p \in Procs :
       /\ call[p].input.status = "RESOLVED"
       /\ call[p].input.id \in DOMAIN pre[p].complaints
       /\ pre[p].complaints[call[p].input.id].asset_id = a
       /\ a \in DOMAIN pre[p].assets
       /\ \A c \in DOMAIN pre[p].complaints :
            (pre[p].complaints[c].asset_id = a /\ pre[p].complaints[c].status # "RESOLVED") =>
              \E q \in Procs : call[q].input.id = c
  /\ \A p \in Procs : \E q \in Procs :
       pre[q].complaints[call[p].input.id].status # "RESOLVED"
  /\ \E p \in Procs : pre[p].assets[a].condition = "UNDER_REPAIR"

\* C26: if an asset is UNDER_REPAIR and all of its unresolved complaints
\* are set to RESOLVED by updateComplaint calls whose statements interleave
\* in any order, nothing else touching the asset or its complaints, then
\* once the calls have finished the asset's condition is GOOD.
C26_ConcurrentResolutionsHeal ==
  \A a \in DOMAIN assets :
    AllResolvedConcurrently(a) =>
      /\ \A p \in Procs : ret[p].status = "ok"
      /\ assets[a].condition = "GOOD"
      /\ \A c \in DOMAIN complaints : complaints[c].asset_id = a => complaints[c].status = "RESOLVED"

\* Two calls have resolved the two unresolved complaints of a1, each
\* having started before the other had written its complaint.
C26_Witness ==
  /\ AllResolvedConcurrently("a1")
  /\ call["p1"].input.id # call["p2"].input.id
  /\ \A p \in Procs : \A c \in DOMAIN pre[p].complaints : pre[p].complaints[c].status # "RESOLVED"

(***************************************************************************)
(* Claims about the ledger's agreement with the asset rows (SpecLedger:    *)
(* calls do not interleave).                                               *)
(***************************************************************************)
\* No call is between two of its statements.
Quiescent == \A p \in Procs : pc[p] \in {"idle", "done"}

\* The ledger rows of field f of asset a, in insertion order.
FieldRows(a, f) == SelectSeq(history, LAMBDA r : r.asset_id = a /\ r.field_name = f)

\* C27: whenever no call is in progress, for every asset and every field
\* among name, description, category, condition, owner and photo_url that
\* has a ledger row, the new_value of the field's last row is the stored
\* value of the field, and the old_value of every row but the first is the
\* new_value of the field's row before it.
C27_LedgerChainsMatchAssets ==
  Quiescent =>
    \A a \in DOMAIN assets : \A f \in Range(AssetFields) :
      LET rows == FieldRows(a, f) IN
      rows # <<>> =>
        /\ rows[Len(rows)].new_value = assets[a][f]
        /\ \A i \in 2..Len(rows) : rows[i].old_value = rows[i - 1].new_value

\* The condition of a1 has two ledger rows, the first written by
\* updateAsset and the second by the auto-heal of a finished updateComplaint.
C27_Witness ==
  /\ Quiescent
  /\ "a1" \in DOMAIN assets
  /\ Len(FieldRows("a1", "condition")) = 2
  /\ FieldRows("a1", "condition")[1].new_value = "UNDER_REPAIR"
  /\ \E p \in Procs : ResolvedExisting(p)

(***************************************************************************)
(* Claims about the stored credential (SpecUsers).                         *)
(***************************************************************************)
\* C28: a finished loginUser with the email of an active user and the
\* password that user's stored credential was made from, by createUser
\* (hashPassword) or by updateUser (Bun.password.hash), has returned that
\* user and a token, neither null nor an error.
C28_CreatedCredentialVerifies ==
  \A p \in Procs :
    LoggedIn(p) =>
      \A u \in Matched(p) :
        (/\ pre[p].users[u].is_active
         /\ call[p].input.password # ""
         /\ pre[p].users[u].password_hash \in {HashPassword(call[p].input.password),
                                               BunPasswordHash(call[p].input.password)}) =>
          /\ ret[p].status = "ok"
          /\ ret[p].value # NullResult
          /\ ret[p].value.user.id = u
          /\ ret[p].value.token = SignedToken(pre[p].users[u])

(***************************************************************************)
(* Claims about the owner filter alone (SpecQueries).                      *)
(***************************************************************************)
\* C29: getAssets with no filter but an owner o has returned exactly the
\* assets whose stored owner equals o: every stored asset of owner o, and
\* no asset of another owner or of none.
C29_OwnerFilterReturnsOwnersAssets ==
  \A p \in Procs :
    (/\ Listed(p)
     /\ call[p].filters # <<>>
     /\ GivenFilters(call[p].filters[1]) = {"owner"}) =>
      ret[p].value = {r \in RowsBefore(p) : r.owner = call[p].filters[1].owner[1]}

(***************************************************************************)
(* Claims about what archiving and restoring write (SpecLifecycle).        *)
(***************************************************************************)
\* The columns of an asset row but is_archived and updated_at.
KeptColumns == {"id", "name", "description", "category", "condition", "owner", "photo_url",
                "qr_code", "created_at"}

\* The call p has finished was a soft deleteAsset or a restoreAsset that
\* wrote the asset.
ArchivedOrRestored(p) ==
  /\ pc[p] = "done"
  /\ \/ SoftDeletedExisting(p)
     \/ RestoredArchived(p)

\* After a finished soft delete or restore of an asset the columns of the
\* row other than is_archived and updated_at, every other asset row and the
\* complaints, schedules and ledger are as before the call; a finished
\* createAsset has stored its row with is_archived = false.
ArchivingWritesFlagOnly ==
  \A p \in Procs :
    /\ ArchivedOrRestored(p) =>
         /\ DOMAIN assets = DOMAIN pre[p].assets
         /\ \A k \in KeptColumns : assets[call[p].id][k] = pre[p].assets[call[p].id][k]
         /\ assets[call[p].id].is_archived = (call[p].op = "deleteAsset")
         /\ \A a \in DOMAIN assets \ {call[p].id} : assets[a] = pre[p].assets[a]
         /\ complaints = pre[p].complaints
         /\ maintenance = pre[p].maintenance
         /\ history = pre[p].history
    /\ CreatedAsset(p) => CreatedUnarchived(p)

\* A step that changes the is_archived flag of an asset is the update of a
\* soft deleteAsset or of a restoreAsset on that asset.
FlagWrittenByArchiveAndRestoreOnly ==
  \A a \in DOMAIN assets \cap DOMAIN assets' :
    assets'[a].is_archived # assets[a].is_archived =>
      \E p \in Procs :
        /\ pc[p] \in {"da_archive", "ra_update"}
        /\ pc'[p] # pc[p]
        /\ call[p].id = a

\* C30: the soft path of deleteAsset and restoreAsset write only
\* is_archived and updated_at of the asset and touch no complaint, schedule
\* or ledger row; no step of any other operation changes an asset's
\* is_archived, and createAsset stores false.
C30_ArchiveFlagFrame ==
  []ArchivingWritesFlagOnly /\ [][FlagWrittenByArchiveAndRestoreOnly]_vars

\* restoreAsset has finished on an asset that an earlier soft delete had
\* archived, the asset having a complaint.
C30_Witness ==
  \E p \in Procs :
    /\ RestoredArchived(p)
    /\ ret[p].status = "ok"
    /\ pre[p].assets[call[p].id].updated_at > 0
    /\ \E c \in DOMAIN complaints : complaints[c].asset_id = call[p].id
====
